---- MODULE Spec2Model ----
(***************************************************************************)
(* CFramework middleware: the priority thread pool (cf_threadpool.c), the  *)
(* publish/subscribe event bus (cf_event.c) and the memory pool manager    *)
(* (cf_mempool.c), modelled as interleaved steps of application threads    *)
(* and worker threads over the three process-wide singletons.              *)
(***************************************************************************)
EXTENDS Integers, Sequences, FiniteSets, TLC

(***************************************************************************)
(* Bounds of the model                                                     *)
(***************************************************************************)
\* largest thread_count a configuration may ask for
MaxThreads == 1
\* largest thread_count where the failures of cf_threadpool_init_with_config are looked at
MaxInitThreads == 2
\* largest queue_size a configuration may ask for
MaxQueueSize == 1
\* number of tasks accepted by the queues over one behaviour
MaxTasks == 2
\* application threads that submit tasks, next to the one that owns the pool
NumSubmitters == 1
\* successful initialisations over one behaviour
MaxInits == 1

(***************************************************************************)
(* Program constants                                                       *)
(***************************************************************************)
\* 32-bit unsigned values are written as their two's-complement representatives:
\* 0xFFFFFFFF is -1, so that 0 - 1 wraps to it and it + 1 wraps to 0
CF_WAIT_FOREVER == -1

inc32(x) == IF x = -1 THEN 0 ELSE x + 1

dec32(x) == x - 1

\* unsigned a >= b
ge32(a, b) == IF (a < 0) = (b < 0) THEN a >= b ELSE a < 0

Workers == 1..MaxInitThreads
\* thread 0 initialises and deinitialises the pool and waits for it; the others submit
Controller == 0
Submitters == 1..NumSubmitters
Clients == {Controller} \cup Submitters

(***************************************************************************)
(* State                                                                   *)
(***************************************************************************)
VARIABLES
    g_threadpool,   \* the cf_threadpool_t singleton
    worker,         \* worker threads: position in worker_thread and its local task
    client,         \* application threads: position in the API call in progress
    tracer,         \* what the executed task bodies have appended, in order
    hist,           \* history: bookkeeping used only to state properties
    g_pool_manager, \* the cf_mempool_manager_t singleton
    heap,           \* regions of the host heap that malloc has handed out
    mthread,        \* tasks calling the memory pool: position in the call in progress
    mret,           \* what the memory pool call that just returned handed back
    mhist,          \* history of the memory pool calls
    g_event_system, \* the cf_event_system_t singleton
    ethread,        \* tasks calling the event bus: position in the call in progress
    eret,           \* what the event bus call that just returned handed back
    elog,           \* the callback invocations, in order
    ehist           \* history of the event bus calls

tp_vars == <<g_threadpool, worker, client, tracer, hist>>
mp_vars == <<g_pool_manager, heap, mthread, mret, mhist>>
ev_vars == <<g_event_system, ethread, eret, elog, ehist>>
vars == <<tp_vars, mp_vars, ev_vars>>

\* cf_queue_t: a FreeRTOS FIFO queue of fixed length; NULL before creation
NULL_QUEUE == [alive |-> FALSE, length |-> 0, items |-> << >>]

cf_queue_create(length) == [alive |-> TRUE, length |-> length, items |-> << >>]

cf_queue_destroy(q) == [alive |-> FALSE, length |-> q.length, items |-> << >>]

cf_queue_get_count(q) == Len(q.items)

\* a queue that takes every item
cf_queue_never_full(q) == FALSE

cf_queue_is_full(q) == Len(q.items) >= q.length

\* cf_threadpool_task_t
cf_threadpool_task_t(function, arg, priority) ==
    [function |-> function, arg |-> arg, priority |-> priority]

NO_TASK == cf_threadpool_task_t("NULL", 0, "LOW")

cf_threadpool_priority_t == {"LOW", "NORMAL", "HIGH", "CRITICAL"}

\* numeric value of the priority enumeration
priority_value(p) ==
    CASE p = "LOW" -> 0 [] p = "NORMAL" -> 1 [] p = "HIGH" -> 2 [] p = "CRITICAL" -> 3

get_queue_for_priority(priority) ==
    CASE priority = "CRITICAL" -> "queue_critical"
      [] priority = "HIGH"     -> "queue_high"
      [] priority = "LOW"      -> "queue_low"
      [] OTHER                 -> "queue_normal"

\* a worker that polls the high queue before the critical one
worker_poll_order_high_first == <<"queue_high", "queue_critical", "queue_normal", "queue_low">>

\* a worker that never polls the low queue
worker_poll_order_without_low ==
    <<"queue_critical", "queue_high", "queue_normal", "queue_normal">>

\* a worker that polls the low queue first
worker_poll_order_low_first == <<"queue_low", "queue_critical", "queue_high", "queue_normal">>

\* the order in which one iteration of worker_thread polls the queues
worker_poll_order == <<"queue_critical", "queue_high", "queue_normal", "queue_low">>

\* the order in which cf_threadpool_get_pending_count reads the four depths
pending_count_order == <<"queue_critical", "queue_high", "queue_normal", "queue_low">>

\* static cf_threadpool_t g_threadpool = {0}
threadpool_zero ==
    [initialized     |-> FALSE,
     state           |-> "STOPPED",
     thread_count    |-> 0,
     workers         |-> FALSE,
     queue_critical  |-> NULL_QUEUE,
     queue_high      |-> NULL_QUEUE,
     queue_normal    |-> NULL_QUEUE,
     queue_low       |-> NULL_QUEUE,
     mutex           |-> FALSE,
     active_tasks    |-> 0,
     total_submitted |-> 0,
     total_completed |-> 0]

worker_none == [pc |-> "none", k |-> 1, task |-> NO_TASK]

\* status: the error the last call of the task returned from cf_queue_send or from the
\* creation of an object, CF_OK without one
client_idle ==
    [pc |-> "idle", op |-> "none", priority |-> "LOW", timeout_ms |-> 0,
     expired |-> FALSE, k |-> 1, pending |-> 0, status |-> "CF_OK"]

hist_zero ==
    [task_cap  |-> 0,                        \* number of tasks the behaviour may accept
     inits     |-> 0,                        \* initialisations so far
     queue_size |-> 0,                       \* config->queue_size of the last of them
     live      |-> {},                       \* mutex, queues and worker array created and not destroyed
     next_arg  |-> 1,                        \* label given to the next accepted task
     together  |-> {},                       \* pairs of tasks pending together when a worker finished a task
     quiet     |-> [c \in Clients |-> FALSE]] \* no submission since this client's deinit or
                                              \* wait_idle began

TPInit ==
    /\ g_threadpool = threadpool_zero
    /\ worker = [w \in Workers |-> worker_none]
    /\ client = [c \in Clients |-> client_idle]
    /\ tracer = << >>
    /\ hist = [hist_zero EXCEPT !.task_cap = MaxTasks]

cf_threadpool_get_pending_count_now ==
    cf_queue_get_count(g_threadpool.queue_critical) +
    cf_queue_get_count(g_threadpool.queue_high) +
    cf_queue_get_count(g_threadpool.queue_normal) +
    cf_queue_get_count(g_threadpool.queue_low)

\* the tasks that sit in the four queues
Queued ==
    UNION {{g_threadpool[q].items[i] : i \in 1..Len(g_threadpool[q].items)} :
           q \in {"queue_critical", "queue_high", "queue_normal", "queue_low"}}

\* the application tasks among them
QueuedTasks == {t \in Queued : t.function = "task_fn"}

(***************************************************************************)
(* Thread pool: cf_threadpool_init_with_config                             *)
(***************************************************************************)
\* memset, cf_mutex_create, the four cf_queue_create, configuration, state
init_resources(thread_count, queue_size) ==
    [threadpool_zero EXCEPT
       !.mutex          = TRUE,
       !.queue_critical = cf_queue_create(queue_size),
       !.queue_high     = cf_queue_create(queue_size),
       !.queue_normal   = cf_queue_create(queue_size * 2),
       !.queue_low      = cf_queue_create(queue_size),
       !.thread_count   = thread_count,
       !.state          = "RUNNING"]

\* the objects cf_threadpool_init_with_config creates before the workers, in this order
init_objects == <<"mutex", "queue_critical", "queue_high", "queue_normal", "queue_low">>

\* a cleanup that destroys the queues and leaves the mutex
cleanup_destroys_queues(created) ==
    created \cap {"queue_critical", "queue_high", "queue_normal", "queue_low"}

\* the objects the cleanup label destroys: the queues whose handle is set, and the mutex
cleanup_destroys(created) ==
    created \cap {"queue_critical", "queue_high", "queue_normal", "queue_low", "mutex"}

\* entry checks, memset, then the objects: the first made of them are created, the next
\* creation fails and the cleanup label runs (no cleanup when it is the mutex that fails)
init_with_config_begin(c, thread_count, queue_size) ==
    /\ client[c].pc = "idle"
    /\ IF g_threadpool.initialized
       THEN UNCHANGED <<g_threadpool, client, hist>>      \* CF_ERROR_ALREADY_INITIALIZED
       ELSE /\ hist.inits < MaxInits
            /\ \E made \in 0..Len(init_objects) :
                  LET created == {init_objects[k] : k \in 1..made} IN
                  IF made = Len(init_objects)
                  THEN /\ hist' = [hist EXCEPT !.queue_size = queue_size,
                                               !.live = @ \cup created]
                       /\ g_threadpool' = init_resources(thread_count, queue_size)
                       /\ client' = [client EXCEPT ![c] =
                                        [client_idle EXCEPT !.pc = "init_workers",
                                                            !.op = "init"]]
                  ELSE /\ hist' = [hist EXCEPT
                                     !.live = (@ \cup created) \ cleanup_destroys(created)]
                       /\ g_threadpool' = threadpool_zero
                       /\ client' = [client EXCEPT ![c] =
                                        [client_idle EXCEPT !.status = "CF_ERROR_NO_MEMORY"]]
    /\ UNCHANGED <<worker, tracer>>
    /\ UNCHANGED <<mp_vars, ev_vars>>

\* create_workers, then initialized = true; or the array is not allocated, or the
\* first made workers are created, the next cf_task_create fails, create_workers deletes
\* the workers it created and frees the array, and the cleanup label runs
create_workers(c) ==
    /\ client[c].pc = "init_workers"
    /\ \E allocated \in BOOLEAN, made \in 0..g_threadpool.thread_count :
          IF allocated /\ made = g_threadpool.thread_count
          THEN /\ worker' = [w \in Workers |->
                               IF w <= g_threadpool.thread_count
                               THEN [pc |-> "loop", k |-> 1, task |-> NO_TASK]
                               ELSE worker[w]]
               /\ g_threadpool' = [g_threadpool EXCEPT !.workers = TRUE,
                                                       !.initialized = TRUE]
               /\ client' = [client EXCEPT ![c] = client_idle]
               /\ hist' = [hist EXCEPT !.inits = hist.inits + 1,
                                       !.live = @ \cup {"workers"}]
          ELSE /\ worker' = [w \in Workers |->
                               IF allocated /\ w <= made
                               THEN [worker_none EXCEPT !.pc = "deleted"]
                               ELSE worker[w]]
               /\ g_threadpool' = threadpool_zero
               /\ client' = [client EXCEPT ![c] =
                                [client_idle EXCEPT !.status = "CF_ERROR_NO_MEMORY"]]
               /\ hist' = [hist EXCEPT !.live = @ \ cleanup_destroys(@)]
    /\ UNCHANGED tracer
    /\ UNCHANGED <<mp_vars, ev_vars>>

(***************************************************************************)
(* Thread pool: worker_thread                                              *)
(***************************************************************************)
\* while (g_threadpool.state == CF_THREADPOOL_RUNNING)
worker_loop(w) ==
    /\ worker[w].pc = "loop"
    /\ worker' = [worker EXCEPT ![w].pc = IF g_threadpool.state = "RUNNING"
                                          THEN "receive" ELSE "exited",
                                ![w].k = 1]
    /\ UNCHANGED <<g_threadpool, client, tracer, hist>>
    /\ UNCHANGED <<mp_vars, ev_vars>>

\* one cf_queue_receive of the if / else-if chain: the k-th queue of the poll order
worker_receive(w) ==
    /\ worker[w].pc = "receive"
    /\ LET q == worker_poll_order[worker[w].k]
           queue == g_threadpool[q]
       IN  /\ queue.alive
           /\ IF Len(queue.items) > 0
              THEN /\ g_threadpool' = [g_threadpool EXCEPT ![q].items = Tail(queue.items)]
                   /\ worker' = [worker EXCEPT ![w].task = Head(queue.items),
                                               ![w].pc = "got"]
              ELSE /\ worker' = [worker EXCEPT
                                   ![w].k  = IF worker[w].k < 4 THEN worker[w].k + 1 ELSE 1,
                                   ![w].pc = IF worker[w].k < 4 THEN "receive" ELSE "loop"]
                   /\ UNCHANGED g_threadpool
    /\ UNCHANGED <<client, tracer, hist>>
    /\ UNCHANGED <<mp_vars, ev_vars>>

\* if (got_task && task.function != NULL): lock, active_tasks++, unlock
worker_begin_task(w) ==
    /\ worker[w].pc = "got"
    /\ g_threadpool.mutex
    /\ IF worker[w].task.function # "NULL"
       THEN /\ g_threadpool' = [g_threadpool EXCEPT
                                  !.active_tasks = inc32(g_threadpool.active_tasks)]
            /\ worker' = [worker EXCEPT ![w].pc = "exec"]
       ELSE /\ worker' = [worker EXCEPT ![w].pc = "loop"]
            /\ UNCHANGED g_threadpool
    /\ UNCHANGED <<client, tracer, hist>>
    /\ UNCHANGED <<mp_vars, ev_vars>>

\* task.function(task.arg) for an application task: the body reports to the tracer
worker_run_task(w) ==
    /\ worker[w].pc = "exec"
    /\ worker[w].task.function = "task_fn"
    /\ tracer' = Append(tracer, [arg |-> worker[w].task.arg,
                                 priority |-> worker[w].task.priority])
    /\ worker' = [worker EXCEPT ![w].pc = "complete"]
    /\ UNCHANGED <<g_threadpool, client, hist>>
    /\ UNCHANGED <<mp_vars, ev_vars>>

\* lock, active_tasks--, total_completed++, unlock
worker_complete(w) ==
    /\ worker[w].pc = "complete"
    /\ g_threadpool.mutex
    /\ g_threadpool' = [g_threadpool EXCEPT
                          !.active_tasks    = dec32(g_threadpool.active_tasks),
                          !.total_completed = inc32(g_threadpool.total_completed)]
    /\ worker' = [worker EXCEPT ![w].pc = "loop", ![w].task = NO_TASK]
    /\ hist' = [hist EXCEPT !.together =
                   hist.together \cup {{t.arg, u.arg} : t \in QueuedTasks, u \in QueuedTasks}]
    /\ UNCHANGED <<client, tracer>>
    /\ UNCHANGED <<mp_vars, ev_vars>>

(***************************************************************************)
(* Thread pool: cf_threadpool_submit and cf_threadpool_submit_from_isr     *)
(***************************************************************************)
SubmitsInFlight == Cardinality({d \in Clients : client[d].pc = "submit_send"})

\* CF_PTR_CHECK(function), initialized and state checks, task descriptor
submit_begin(c, function, priority) ==
    /\ client[c].pc = "idle"
    /\ hist.next_arg + SubmitsInFlight <= hist.task_cap
    /\ IF function = "NULL" \/ ~g_threadpool.initialized \/ g_threadpool.state # "RUNNING"
       THEN client' = [client EXCEPT ![c] = client_idle]   \* NULL_POINTER, NOT_INITIALIZED
                                                           \* or INVALID_STATE
       ELSE client' = [client EXCEPT ![c] = [client_idle EXCEPT !.pc = "submit_send",
                                                               !.op = "submit",
                                                               !.priority = priority]]
    /\ hist' = [hist EXCEPT !.quiet = [d \in Clients |-> FALSE]]
    /\ UNCHANGED <<g_threadpool, worker, tracer>>
    /\ UNCHANGED <<mp_vars, ev_vars>>

\* the bookkeeping of one accepted task
Accepted ==
    [hist EXCEPT !.next_arg = hist.next_arg + 1,
                 !.quiet    = [d \in Clients |-> FALSE]]

\* cf_queue_send(queue, &task, timeout_ms): enqueue, or give up on a full queue
submit_send(c) ==
    /\ client[c].pc = "submit_send"
    /\ LET q == get_queue_for_priority(client[c].priority)
           queue == g_threadpool[q]
           task == cf_threadpool_task_t("task_fn", hist.next_arg, client[c].priority)
       IN  /\ queue.alive
           /\ IF ~cf_queue_is_full(queue)
              THEN /\ g_threadpool' = [g_threadpool EXCEPT ![q].items = Append(queue.items, task)]
                   /\ client' = [client EXCEPT ![c].pc = "submit_stat"]
                   /\ hist' = Accepted
              ELSE /\ client' = [client EXCEPT ![c] =
                                      [client_idle EXCEPT !.status = "CF_ERROR_TIMEOUT"]]
                   /\ UNCHANGED <<g_threadpool, hist>>
    /\ UNCHANGED <<worker, tracer>>
    /\ UNCHANGED <<mp_vars, ev_vars>>

\* lock, total_submitted++, unlock, return CF_OK
submit_stat(c) ==
    /\ client[c].pc = "submit_stat"
    /\ g_threadpool.mutex
    /\ g_threadpool' = [g_threadpool EXCEPT
                          !.total_submitted = inc32(g_threadpool.total_submitted)]
    /\ client' = [client EXCEPT ![c] = client_idle]
    /\ UNCHANGED <<worker, tracer, hist>>
    /\ UNCHANGED <<mp_vars, ev_vars>>

\* the interrupt handler runs to completion: checks, xQueueSendFromISR, no statistics
submit_from_isr(function, priority, timeout_ms) ==
    /\ hist.next_arg + SubmitsInFlight <= hist.task_cap
    /\ LET q == get_queue_for_priority(priority)
           queue == g_threadpool[q]
           task == cf_threadpool_task_t("task_fn", hist.next_arg, priority)
       IN  IF \/ function = "NULL"
              \/ ~g_threadpool.initialized
              \/ g_threadpool.state # "RUNNING"
              \/ timeout_ms # 0
              \/ cf_queue_is_full(queue)
           THEN /\ hist' = [hist EXCEPT !.quiet = [d \in Clients |-> FALSE]]
                /\ UNCHANGED g_threadpool
           ELSE /\ queue.alive
                /\ g_threadpool' = [g_threadpool EXCEPT ![q].items = Append(queue.items, task)]
                /\ hist' = Accepted
    /\ UNCHANGED <<worker, client, tracer>>
    /\ UNCHANGED <<mp_vars, ev_vars>>

(***************************************************************************)
(* Thread pool: cf_threadpool_wait_idle (also the first part of deinit)    *)
(***************************************************************************)
SubmitInProgress == \E d \in Clients : client[d].op = "submit"

\* the caller of wait_idle continues: deinit goes on to destroy_workers
wait_idle_return(c) ==
    IF client[c].op = "deinit"
    THEN [client[c] EXCEPT !.pc = "destroy_workers"]
    ELSE client_idle

\* if (!initialized) return NOT_INITIALIZED; elapsed = 0
\* The comparison elapsed >= timeout_ms is all the loop uses of the two numbers:
\* expired holds its value (it is true from the start only for timeout_ms = 0).
wait_idle_begin(c, timeout_ms) ==
    /\ client[c].pc = "idle"
    /\ client' = [client EXCEPT ![c] =
                    IF ~g_threadpool.initialized
                    THEN client_idle
                    ELSE [client_idle EXCEPT !.pc = "is_idle_active", !.op = "wait_idle",
                                             !.timeout_ms = timeout_ms,
                                             !.expired = (timeout_ms = 0)]]
    /\ hist' = [hist EXCEPT !.quiet[c] = g_threadpool.initialized /\ ~SubmitInProgress]
    /\ UNCHANGED <<g_threadpool, worker, tracer>>
    /\ UNCHANGED <<mp_vars, ev_vars>>

\* cf_threadpool_is_idle, left operand: cf_threadpool_get_active_count() == 0
is_idle_active(c) ==
    /\ client[c].pc = "is_idle_active"
    /\ g_threadpool.mutex \/ ~g_threadpool.initialized
    /\ LET count == IF ~g_threadpool.initialized THEN 0 ELSE g_threadpool.active_tasks
       IN  client' = [client EXCEPT ![c].pc = IF count = 0 THEN "is_idle_pending"
                                              ELSE "wait_idle_poll",
                                    ![c].k = 1, ![c].pending = 0]
    /\ UNCHANGED <<g_threadpool, worker, tracer, hist>>
    /\ UNCHANGED <<mp_vars, ev_vars>>

\* cf_threadpool_get_pending_count: the k-th cf_queue_get_count of the sum; after the
\* fourth, is_idle is decided and wait_idle returns CF_OK when the sum is 0
is_idle_pending(c) ==
    /\ client[c].pc = "is_idle_pending"
    /\ LET q == pending_count_order[client[c].k]
           sum == IF ~g_threadpool.initialized /\ client[c].k = 1
                  THEN 0
                  ELSE client[c].pending + cf_queue_get_count(g_threadpool[q])
           last == client[c].k = 4 \/ (~g_threadpool.initialized /\ client[c].k = 1)
       IN  client' = [client EXCEPT ![c] =
                        IF ~last
                        THEN [client[c] EXCEPT !.k = client[c].k + 1, !.pending = sum]
                        ELSE IF sum = 0
                             THEN wait_idle_return(c)
                             ELSE [client[c] EXCEPT !.pc = "wait_idle_poll", !.k = 1,
                                                    !.pending = 0]]
    /\ UNCHANGED <<g_threadpool, worker, tracer, hist>>
    /\ UNCHANGED <<mp_vars, ev_vars>>

\* not idle: return CF_ERROR_TIMEOUT once elapsed >= timeout_ms, else delay 10 ms and
\* add it to elapsed, which may or may not reach timeout_ms
wait_idle_poll(c) ==
    /\ client[c].pc = "wait_idle_poll"
    /\ IF client[c].timeout_ms # CF_WAIT_FOREVER /\ client[c].expired
       THEN client' = [client EXCEPT ![c] = wait_idle_return(c)]
       ELSE \E e \in BOOLEAN :
               client' = [client EXCEPT ![c].pc = "is_idle_active", ![c].expired = e]
    /\ UNCHANGED <<g_threadpool, worker, tracer, hist>>
    /\ UNCHANGED <<mp_vars, ev_vars>>

(***************************************************************************)
(* Thread pool: cf_threadpool_deinit and destroy_workers                   *)
(***************************************************************************)

\* if (!initialized) return; if (wait_for_tasks) cf_threadpool_wait_idle(5000)
deinit_begin(c, wait_for_tasks) ==
    /\ client[c].pc = "idle"
    /\ IF ~g_threadpool.initialized
       THEN UNCHANGED <<client, hist>>
       ELSE /\ client' = [client EXCEPT ![c] =
                            [client_idle EXCEPT
                               !.op = "deinit",
                               !.pc = IF wait_for_tasks THEN "is_idle_active"
                                      ELSE "destroy_workers",
                               !.timeout_ms = 5000]]
            /\ hist' = [hist EXCEPT !.quiet[c] = wait_for_tasks /\ ~SubmitInProgress]
    /\ UNCHANGED <<g_threadpool, worker, tracer>>
    /\ UNCHANGED <<mp_vars, ev_vars>>

\* destroy_workers: if (workers == NULL) return; state = SHUTTING_DOWN; delay 100 ms
destroy_workers_state(c) ==
    /\ client[c].pc = "destroy_workers"
    /\ IF g_threadpool.workers
       THEN /\ g_threadpool' = [g_threadpool EXCEPT !.state = "SHUTTING_DOWN"]
            /\ client' = [client EXCEPT ![c].pc = "delete_workers"]
       ELSE /\ client' = [client EXCEPT ![c].pc = "destroy_queues"]
            /\ UNCHANGED g_threadpool
    /\ UNCHANGED <<worker, tracer, hist>>
    /\ UNCHANGED <<mp_vars, ev_vars>>

\* after the delay: cf_task_delete of every worker, vPortFree, workers = NULL
destroy_workers_delete(c) ==
    /\ client[c].pc = "delete_workers"
    /\ worker' = [w \in Workers |->
                    IF w <= g_threadpool.thread_count
                    THEN [worker_none EXCEPT !.pc = "deleted"]
                    ELSE worker[w]]
    /\ g_threadpool' = [g_threadpool EXCEPT !.workers = FALSE]
    /\ client' = [client EXCEPT ![c].pc = "destroy_queues"]
    /\ hist' = [hist EXCEPT !.live = @ \ {"workers"}]
    /\ UNCHANGED tracer
    /\ UNCHANGED <<mp_vars, ev_vars>>

\* cf_queue_destroy of the four queues
deinit_destroy_queues(c) ==
    /\ client[c].pc = "destroy_queues"
    /\ g_threadpool' = [g_threadpool EXCEPT
                          !.queue_critical = cf_queue_destroy(g_threadpool.queue_critical),
                          !.queue_high     = cf_queue_destroy(g_threadpool.queue_high),
                          !.queue_normal   = cf_queue_destroy(g_threadpool.queue_normal),
                          !.queue_low      = cf_queue_destroy(g_threadpool.queue_low)]
    /\ client' = [client EXCEPT ![c].pc = "destroy_mutex"]
    /\ hist' = [hist EXCEPT !.live = @ \ {"queue_critical", "queue_high", "queue_normal",
                                          "queue_low"}]
    /\ UNCHANGED <<worker, tracer>>
    /\ UNCHANGED <<mp_vars, ev_vars>>

\* cf_mutex_destroy(g_threadpool.mutex)
deinit_destroy_mutex(c) ==
    /\ client[c].pc = "destroy_mutex"
    /\ g_threadpool' = [g_threadpool EXCEPT !.mutex = FALSE]
    /\ client' = [client EXCEPT ![c].pc = "deinit_flags"]
    /\ hist' = [hist EXCEPT !.live = @ \ {"mutex"}]
    /\ UNCHANGED <<worker, tracer>>
    /\ UNCHANGED <<mp_vars, ev_vars>>

\* initialized = false; state = CF_THREADPOOL_STOPPED; return
deinit_flags(c) ==
    /\ client[c].pc = "deinit_flags"
    /\ g_threadpool' = [g_threadpool EXCEPT !.initialized = FALSE, !.state = "STOPPED"]
    /\ client' = [client EXCEPT ![c] = client_idle]
    /\ UNCHANGED <<worker, tracer, hist>>
    /\ UNCHANGED <<mp_vars, ev_vars>>

(***************************************************************************)
(* The thread pool on its own                                              *)
(***************************************************************************)
TPNext ==
    \/ \E n \in 1..MaxThreads, q \in 1..MaxQueueSize :
          init_with_config_begin(Controller, n, q)
    \/ create_workers(Controller)
    \/ \E w \in Workers : worker_loop(w)
    \/ \E w \in Workers : worker_receive(w)
    \/ \E w \in Workers : worker_begin_task(w)
    \/ \E w \in Workers : worker_run_task(w)
    \/ \E w \in Workers : worker_complete(w)
    \/ \E c \in Submitters, f \in {"NULL", "task_fn"}, p \in cf_threadpool_priority_t :
          submit_begin(c, f, p)
    \/ \E c \in Submitters : submit_send(c)
    \/ \E c \in Submitters : submit_stat(c)
    \/ \E f \in {"NULL", "task_fn"}, p \in cf_threadpool_priority_t, t \in {0, 100} :
          submit_from_isr(f, p, t)
    \/ \E t \in {0, CF_WAIT_FOREVER} : wait_idle_begin(Controller, t)
    \/ is_idle_active(Controller)
    \/ is_idle_pending(Controller)
    \/ wait_idle_poll(Controller)
    \/ \E b \in BOOLEAN : deinit_begin(Controller, b)
    \/ destroy_workers_state(Controller)
    \/ destroy_workers_delete(Controller)
    \/ deinit_destroy_queues(Controller)
    \/ deinit_destroy_mutex(Controller)
    \/ deinit_flags(Controller)

(***************************************************************************)
(* A running pool with one worker, its submitters and the interrupt source *)
(***************************************************************************)
\* tasks accepted in the one-worker scenario
ScenarioTasks == 3

\* the state cf_threadpool_init_with_config leaves for thread_count = 1, queue_size = 1
\* the objects of an initialised pool
pool_objects == {init_objects[k] : k \in 1..Len(init_objects)} \cup {"workers"}

PrioInit ==
    /\ g_threadpool = [init_resources(1, 1) EXCEPT !.workers = TRUE, !.initialized = TRUE]
    /\ worker = [w \in Workers |-> IF w = 1 THEN [worker_none EXCEPT !.pc = "loop"]
                                   ELSE worker_none]
    /\ client = [c \in Clients |-> client_idle]
    /\ tracer = << >>
    /\ hist = [hist_zero EXCEPT !.task_cap = ScenarioTasks, !.inits = 1, !.queue_size = 1,
                                !.live = pool_objects]

PrioNext ==
    \/ \E w \in Workers : worker_loop(w)
    \/ \E w \in Workers : worker_receive(w)
    \/ \E w \in Workers : worker_begin_task(w)
    \/ \E w \in Workers : worker_run_task(w)
    \/ \E w \in Workers : worker_complete(w)
    \/ \E c \in Submitters, p \in cf_threadpool_priority_t : submit_begin(c, "task_fn", p)
    \/ \E c \in Submitters : submit_send(c)
    \/ \E c \in Submitters : submit_stat(c)
    \/ \E p \in cf_threadpool_priority_t : submit_from_isr("task_fn", p, 0)

(***************************************************************************)
(* Memory pool manager (cf_mempool.c)                                      *)
(***************************************************************************)
\* pools the manager can hold (CF_MEMPOOL_MAX_POOLS, a build option, default 8)
CF_MEMPOOL_MAX_POOLS == 2

\* largest block size (CF_MEMPOOL_MAX_SIZE, a build option, default 2048)
CF_MEMPOOL_MAX_SIZE == 2

\* tasks that call the memory pool
NumAllocators == 2

\* calls of cf_mempool_alloc and cf_mempool_alloc_from_pool in one behaviour
MaxAllocCalls == 2

\* calls of cf_mempool_reset_stats in one behaviour
MaxResets == 1

\* block counts handed to cf_mempool_create
BlockCounts == {0, 1, 32, 65}

CF_MEMPOOL_INVALID_INDEX == 255

\* bits of one free mask word, and blocks the two words cover
MASK_BITS == 32
MAX_BLOCKS == 64

CF_MEMPOOL_MAGIC == "0xDEADBEEF"

Allocators == 1..NumAllocators
\* task 1 also sets the manager and the pools up and resets the statistics
Owner == 1
POOL_SLOTS == 0..(CF_MEMPOOL_MAX_POOLS - 1)

\* a null handle, a null pool pointer, a failed search
NO_POOL == -1
NULL == 0

\* cf_mutex_t: a null handle, an unlocked mutex, or the number of the task that holds it
MUTEX_NONE == -1
MUTEX_FREE == 0
\* a mutex handle once cf_mutex_destroy has freed the mutex
MUTEX_DESTROYED == -2

\* an unlock that leaves the mutex with the task
cf_mutex_unlock_forgotten(mutex) == mutex

\* cf_mutex_unlock(mutex): CF_PTR_CHECK turns a null mutex away; xSemaphoreGive gives
\* the mutex back and does not look at which task holds it
cf_mutex_unlock(mutex) ==
    IF mutex \in {MUTEX_NONE, MUTEX_DESTROYED} THEN mutex ELSE MUTEX_FREE

SetMin(S) == CHOOSE x \in S : \A y \in S : x <= y

\* struct cf_mempool_s after memset 0 (a mask is the set of its bits that are 1)
pool_zero ==
    [magic |-> "0", active |-> FALSE, block_size |-> 0, block_count |-> 0,
     memory_base |-> NULL, free_mask_low |-> {}, free_mask_high |-> {},
     alloc_hint |-> 0, mutex |-> MUTEX_NONE,
     total_allocations |-> 0, total_deallocations |-> 0, current_used |-> 0,
     peak_used |-> 0, allocation_failures |-> 0, fragmentation_count |-> 0]

\* static cf_mempool_manager_t g_pool_manager = {0}
manager_zero ==
    [initialized |-> FALSE, global_mutex |-> MUTEX_NONE,
     pools |-> [i \in POOL_SLOTS |-> pool_zero], pool_count |-> 0,
     size_to_pool_map |-> [s \in 0..CF_MEMPOOL_MAX_SIZE |-> 0],
     global_allocations |-> 0, global_failures |-> 0, fragmentation_events |-> 0]

\* the host heap hands out regions wide enough for the largest pool; malloc is first fit
REGION_SPAN == MAX_BLOCKS * CF_MEMPOOL_MAX_SIZE
heap_regions == {r * REGION_SPAN : r \in 1..CF_MEMPOOL_MAX_POOLS}
malloc == IF heap_regions \ heap = {} THEN NULL ELSE SetMin(heap_regions \ heap)

\* (1UL << n) - 1 for n below the word width
low_bits(n) == {b \in 0..(MASK_BITS - 1) : b < n}
all_bits == 0..(MASK_BITS - 1)

\* the values (1UL << block_count) - 1 can take: the shift by the full word width is
\* undefined, the build yields 0 - 1 (barrel shifter) or (1 << 0) - 1 (masked count)
initial_mask_low(block_count) ==
    IF block_count < MASK_BITS THEN {low_bits(block_count)}
    ELSE IF block_count = MASK_BITS THEN {all_bits, {}}
    ELSE {all_bits}

initial_mask_high(block_count) ==
    IF block_count <= MASK_BITS THEN {}
    ELSE IF block_count - MASK_BITS >= MASK_BITS THEN all_bits
    ELSE low_bits(block_count - MASK_BITS)

validate_config(block_size, block_count) ==
    ~ (\/ block_size = 0
       \/ block_size > CF_MEMPOOL_MAX_SIZE
       \/ block_count = 0
       \/ block_count > MAX_BLOCKS)

validate_handle(handle) ==
    /\ handle # NO_POOL
    /\ g_pool_manager.initialized
    /\ g_pool_manager.pools[handle].magic = CF_MEMPOOL_MAGIC
    /\ g_pool_manager.pools[handle].active

is_block_free(pool, block_index) ==
    IF block_index < MASK_BITS THEN block_index \in pool.free_mask_low
    ELSE (block_index - MASK_BITS) \in pool.free_mask_high

mark_block_used(pool, block_index) ==
    IF block_index < MASK_BITS
    THEN [pool EXCEPT !.free_mask_low = @ \ {block_index}]
    ELSE [pool EXCEPT !.free_mask_high = @ \ {block_index - MASK_BITS}]

mark_block_free(pool, block_index) ==
    IF block_index < MASK_BITS
    THEN [pool EXCEPT !.free_mask_low = @ \cup {block_index}]
    ELSE [pool EXCEPT !.free_mask_high = @ \cup {block_index - MASK_BITS}]

\* a search that returns the first block of the pool without looking at the masks
find_free_block_unmasked(pool) == IF pool.block_count > 0 THEN 0 ELSE NO_POOL

\* the first free block at or after the hint, wrapping; NO_POOL when none is free
find_free_block(pool) ==
    LET free == {i \in 0..(pool.block_count - 1) :
                    is_block_free(pool, (pool.alloc_hint + i) % pool.block_count)}
    IN  IF free = {} THEN NO_POOL
        ELSE (pool.alloc_hint + SetMin(free)) % pool.block_count

\* an address computed with block numbers that start at 1
get_block_address_one_based(pool, block_index) ==
    pool.memory_base + (block_index + 1) * pool.block_size

get_block_address(pool, block_index) ==
    pool.memory_base + block_index * pool.block_size

\* the block index of ptr in pool, NO_POOL for CF_ERROR_INVALID_PARAM
get_block_index(pool, ptr) ==
    IF ptr < pool.memory_base THEN NO_POOL
    ELSE LET offset == ptr - pool.memory_base
             block_idx == offset \div pool.block_size
         IN  IF block_idx >= pool.block_count THEN NO_POOL
             ELSE IF offset % pool.block_size # 0 THEN NO_POOL
             ELSE block_idx

\* a map that takes the first pool that covers the size, whatever its block size
update_size_to_pool_map_first_fit(pools) ==
    [s \in 0..CF_MEMPOOL_MAX_SIZE |->
        LET covering == {i \in POOL_SLOTS : pools[i].active /\ pools[i].block_size >= s}
        IN  IF s = 0 \/ covering = {} THEN CF_MEMPOOL_INVALID_INDEX ELSE SetMin(covering)]

\* the map rebuilt from the pool table: the first pool of the smallest covering size
update_size_to_pool_map(pools) ==
    [s \in 0..CF_MEMPOOL_MAX_SIZE |->
        LET covering == {i \in POOL_SLOTS : pools[i].active /\ pools[i].block_size >= s}
            best == {i \in covering :
                        \A j \in covering : pools[i].block_size <= pools[j].block_size}
        IN  IF s = 0 \/ covering = {} THEN CF_MEMPOOL_INVALID_INDEX ELSE SetMin(best)]

find_pool_for_size(size) ==
    IF size > CF_MEMPOOL_MAX_SIZE THEN NO_POOL
    ELSE LET pool_idx == g_pool_manager.size_to_pool_map[size]
         IN  IF pool_idx = CF_MEMPOOL_INVALID_INDEX THEN NO_POOL
             ELSE IF g_pool_manager.pools[pool_idx].active THEN pool_idx
             ELSE NO_POOL

find_pool_by_pointer(ptr) ==
    LET owning == {i \in POOL_SLOTS :
                     /\ g_pool_manager.pools[i].active
                     /\ ptr >= g_pool_manager.pools[i].memory_base
                     /\ ptr < g_pool_manager.pools[i].memory_base
                              + g_pool_manager.pools[i].block_count
                                * g_pool_manager.pools[i].block_size}
    IN  IF ptr = NULL \/ owning = {} THEN NO_POOL ELSE SetMin(owning)

cf_mempool_is_pool_pointer(ptr) ==
    IF ptr = NULL \/ ~g_pool_manager.initialized THEN FALSE
    ELSE find_pool_by_pointer(ptr) # NO_POOL

\* number of 1-bits in the two free masks
free_bits_set(pool) == Cardinality(pool.free_mask_low) + Cardinality(pool.free_mask_high)

\* a calling task between two calls: the blocks it holds, and the pointer it freed last
\* while no allocation has happened since; inside a call also the locals of the call
mthread_idle ==
    [pc |-> "idle", op |-> "none", caller |-> "none", handle |-> NO_POOL, size |-> 0,
     i |-> 0, block_index |-> 0, ptr |-> NULL, status |-> "CF_OK",
     held |-> {}, last_freed |-> NULL]

\* the pool table as a calling task saw it when it called cf_mempool_alloc(size), kept
\* while no other task calls the memory pool, and the pointer that call returned
no_snap ==
    [valid |-> FALSE, size |-> 0, ptr |-> NULL, pools |-> [i \in POOL_SLOTS |-> pool_zero]]

\* robbed[t]: the pointers task t holds that the free of another task has released
mhist_zero ==
    [calls |-> 0, resets |-> 0,
     used_at_reset |-> [i \in POOL_SLOTS |-> 0],
     snap |-> [t \in Allocators |-> no_snap],
     robbed |-> [t \in Allocators |-> {}]]

\* task t takes a step of a call: the other tasks are not alone with the pools since
\* their calls of cf_mempool_alloc
Disturb(h, t) ==
    [h EXCEPT !.snap = [u \in Allocators |-> IF u = t THEN h.snap[u] ELSE no_snap]]

\* task t starts a call that is not the free of the pointer it just allocated
Forget(h, t) == [h EXCEPT !.snap[t] = no_snap]

\* the call returns ptr or status to the task
thread_done(th, ptr, status) ==
    [mthread_idle EXCEPT !.op = th.op, !.ptr = ptr, !.status = status,
                         !.held = th.held, !.last_freed = th.last_freed]

\* a task between two calls keeps the blocks it holds; what the call returned is in mret
at_rest(th) ==
    IF th.pc = "idle" THEN [th EXCEPT !.op = "none", !.ptr = NULL, !.status = "CF_OK"]
    ELSE th

no_return == [task |-> 0, op |-> "none", ptr |-> NULL, status |-> "CF_OK"]

\* task t goes on as next: one more step inside its call, or the return to the task
settle(t, next) ==
    /\ mthread' = [mthread EXCEPT ![t] = at_rest(next)]
    /\ mret' = IF next.pc = "idle"
               THEN [task |-> t, op |-> next.op, ptr |-> next.ptr, status |-> next.status]
               ELSE no_return

\* cf_mempool_create's initialisation of the slot
created_pool(block_size, block_count, memory, mask_low) ==
    [pool_zero EXCEPT
       !.magic = CF_MEMPOOL_MAGIC, !.active = TRUE,
       !.block_size = block_size, !.block_count = block_count,
       !.memory_base = memory,
       !.free_mask_low = mask_low,
       !.free_mask_high = initial_mask_high(block_count),
       !.alloc_hint = 0, !.mutex = MUTEX_FREE]

\* cf_mempool_alloc_from_pool's update of the pool once block_index is found
take_block(pool, block_index) ==
    LET marked == mark_block_used(pool, block_index)
        used == inc32(pool.current_used)
    IN  [marked EXCEPT
           !.current_used = used,
           !.total_allocations = inc32(pool.total_allocations),
           !.peak_used = IF used > pool.peak_used THEN used ELSE pool.peak_used,
           !.alloc_hint = (block_index + 1) % pool.block_count]

release_block_keep_total(pool, block_index) ==
    [mark_block_free(pool, block_index) EXCEPT
       !.current_used = dec32(pool.current_used)]

release_block_keep_used(pool, block_index) ==
    [mark_block_free(pool, block_index) EXCEPT
       !.total_deallocations = inc32(pool.total_deallocations)]

\* cf_mempool_free's update of the pool
release_block(pool, block_index) ==
    [mark_block_free(pool, block_index) EXCEPT
       !.current_used = dec32(pool.current_used),
       !.total_deallocations = inc32(pool.total_deallocations)]

\* cf_mempool_reset_stats' update of one pool
reset_pool_stats(pool) ==
    [pool EXCEPT
       !.total_allocations = 0, !.total_deallocations = 0,
       !.peak_used = pool.current_used,
       !.allocation_failures = 0, !.fragmentation_count = 0]

count_failure(pool) ==
    [pool EXCEPT !.allocation_failures = inc32(pool.allocation_failures)]

cf_mempool_init(t) ==
    LET th == [mthread[t] EXCEPT !.op = "init"] IN
    /\ mthread[t].pc = "idle"
    /\ mhist' = Disturb(Forget(mhist, t), t)
    /\ IF g_pool_manager.initialized
       THEN /\ settle(t, thread_done(th, NULL, "CF_ERROR"))
            /\ UNCHANGED g_pool_manager
       ELSE \E created \in BOOLEAN :
              IF ~created
              THEN /\ settle(t, thread_done(th, NULL, "CF_ERROR_NO_MEMORY"))
                   /\ UNCHANGED g_pool_manager
              ELSE /\ g_pool_manager' =
                        [manager_zero EXCEPT
                           !.global_mutex = MUTEX_FREE,
                           !.size_to_pool_map =
                               [s \in 0..CF_MEMPOOL_MAX_SIZE |-> CF_MEMPOOL_INVALID_INDEX],
                           !.initialized = TRUE]
                   /\ settle(t, thread_done(th, NULL, "CF_OK"))
    /\ UNCHANGED heap
    /\ UNCHANGED <<tp_vars, ev_vars>>

mempool_create_begin(t, block_size, block_count) ==
    LET th == [mthread[t] EXCEPT !.op = "create"] IN
    /\ mthread[t].pc = "idle"
    /\ mhist' = Disturb(Forget(mhist, t), t)
    /\ settle(t, IF ~g_pool_manager.initialized
                 THEN thread_done(th, NULL, "CF_ERROR_NOT_INITIALIZED")
                 ELSE IF ~validate_config(block_size, block_count)
                 THEN thread_done(th, NULL, "CF_ERROR_INVALID_PARAM")
                 ELSE [th EXCEPT !.pc = "create_lock", !.size = block_size,
                                 !.i = block_count])
    /\ UNCHANGED <<g_pool_manager, heap>>
    /\ UNCHANGED <<tp_vars, ev_vars>>

mempool_create_lock(t) ==
    /\ mthread[t].pc = "create_lock"
    /\ g_pool_manager.global_mutex = MUTEX_FREE
    /\ g_pool_manager' = [g_pool_manager EXCEPT !.global_mutex = t]
    /\ settle(t, [mthread[t] EXCEPT !.pc = "create_body"])
    /\ mhist' = Disturb(mhist, t)
    /\ UNCHANGED heap
    /\ UNCHANGED <<tp_vars, ev_vars>>

mempool_create_body(t) ==
    LET th == mthread[t]
        inactive == {i \in POOL_SLOTS : ~g_pool_manager.pools[i].active}
    IN
    /\ th.pc = "create_body"
    /\ \E memory \in {malloc, NULL}, mask_low \in initial_mask_low(th.i) :
          IF inactive = {} \/ memory = NULL
          THEN /\ g_pool_manager' = [g_pool_manager EXCEPT !.global_mutex = MUTEX_FREE]
               /\ settle(t, thread_done(th, NULL, "CF_ERROR_NO_MEMORY"))
               /\ mhist' = Disturb(mhist, t)
               /\ UNCHANGED heap
          ELSE LET slot == SetMin(inactive)
                   pools == [g_pool_manager.pools EXCEPT
                               ![slot] = created_pool(th.size, th.i, memory, mask_low)]
               IN  /\ g_pool_manager' =
                        [g_pool_manager EXCEPT
                           !.pools = pools,
                           !.pool_count = g_pool_manager.pool_count + 1,
                           !.size_to_pool_map = update_size_to_pool_map(pools),
                           !.global_mutex = MUTEX_FREE]
                   /\ heap' = heap \cup {memory}
                   /\ settle(t, thread_done(th, NULL, "CF_OK"))
                   /\ mhist' = [Disturb(mhist, t) EXCEPT !.used_at_reset[slot] = 0]
    /\ UNCHANGED <<tp_vars, ev_vars>>

\* cf_mempool_deinit up to the lock of the manager
mempool_deinit_begin(t) ==
    LET th == [mthread[t] EXCEPT !.op = "deinit"] IN
    /\ mthread[t].pc = "idle"
    /\ mhist' = Disturb(Forget(mhist, t), t)
    /\ settle(t, IF ~g_pool_manager.initialized THEN thread_done(th, NULL, "CF_OK")
                 ELSE [th EXCEPT !.pc = "deinit_lock"])
    /\ UNCHANGED <<g_pool_manager, heap>>
    /\ UNCHANGED <<tp_vars, ev_vars>>

mempool_deinit_lock(t) ==
    /\ mthread[t].pc = "deinit_lock"
    /\ g_pool_manager.global_mutex = MUTEX_FREE
    /\ g_pool_manager' = [g_pool_manager EXCEPT !.global_mutex = t]
    /\ settle(t, [mthread[t] EXCEPT !.pc = "deinit_body"])
    /\ mhist' = Disturb(mhist, t)
    /\ UNCHANGED heap
    /\ UNCHANGED <<tp_vars, ev_vars>>

\* cf_mempool_deinit under the lock: the loop over the active pools (cf_mutex_destroy of
\* the mutex and memset of the pool; the loop does not call free), pool_count = 0,
\* initialized = false, unlock, cf_mutex_destroy of the mutex of the manager
mempool_deinit_body(t) ==
    LET th == mthread[t] IN
    /\ th.pc = "deinit_body"
    /\ g_pool_manager' =
         [g_pool_manager EXCEPT
            !.pools = [i \in POOL_SLOTS |-> IF g_pool_manager.pools[i].active THEN pool_zero
                                            ELSE g_pool_manager.pools[i]],
            !.pool_count = 0,
            !.initialized = FALSE,
            !.global_mutex = MUTEX_DESTROYED]
    /\ settle(t, thread_done(th, NULL, "CF_OK"))
    /\ mhist' = Disturb(mhist, t)
    /\ UNCHANGED heap
    /\ UNCHANGED <<tp_vars, ev_vars>>

\* cf_mempool_destroy up to the lock of the manager
mempool_destroy_begin(t, handle) ==
    LET th == [mthread[t] EXCEPT !.op = "destroy"] IN
    /\ mthread[t].pc = "idle"
    /\ mhist' = Disturb(Forget(mhist, t), t)
    /\ settle(t, IF ~validate_handle(handle)
                 THEN thread_done(th, NULL, "CF_ERROR_INVALID_PARAM")
                 ELSE [th EXCEPT !.pc = "destroy_lock", !.handle = handle])
    /\ UNCHANGED <<g_pool_manager, heap>>
    /\ UNCHANGED <<tp_vars, ev_vars>>

mempool_destroy_lock(t) ==
    /\ mthread[t].pc = "destroy_lock"
    /\ g_pool_manager.global_mutex = MUTEX_FREE
    /\ g_pool_manager' = [g_pool_manager EXCEPT !.global_mutex = t]
    /\ settle(t, [mthread[t] EXCEPT !.pc = "destroy_pool_lock"])
    /\ mhist' = Disturb(mhist, t)
    /\ UNCHANGED heap
    /\ UNCHANGED <<tp_vars, ev_vars>>

\* cf_mutex_lock(pool->mutex, CF_WAIT_FOREVER): the call waits for the task that holds
\* the mutex, and returns at once with an error nobody reads when the slot was cleared
\* since validate_handle and the mutex is null
mempool_destroy_pool_lock(t) ==
    LET pool == g_pool_manager.pools[mthread[t].handle] IN
    /\ mthread[t].pc = "destroy_pool_lock"
    /\ pool.mutex \in {MUTEX_FREE, MUTEX_NONE}
    /\ g_pool_manager' =
         [g_pool_manager EXCEPT
            !.pools[mthread[t].handle].mutex = IF pool.mutex = MUTEX_FREE THEN t
                                               ELSE MUTEX_NONE]
    /\ settle(t, [mthread[t] EXCEPT !.pc = "destroy_body"])
    /\ mhist' = Disturb(mhist, t)
    /\ UNCHANGED heap
    /\ UNCHANGED <<tp_vars, ev_vars>>

\* cf_mempool_destroy under the two locks: free(pool->memory_base) and the unlock of the
\* mutex of the pool
mempool_destroy_body(t) ==
    LET th == mthread[t]
        pool == g_pool_manager.pools[th.handle]
    IN
    /\ th.pc = "destroy_body"
    /\ heap' = heap \ {pool.memory_base}
    /\ g_pool_manager' = [g_pool_manager EXCEPT
                            !.pools[th.handle].mutex = cf_mutex_unlock(@)]
    /\ settle(t, [th EXCEPT !.pc = "destroy_clear"])
    /\ mhist' = Disturb(mhist, t)
    /\ UNCHANGED <<tp_vars, ev_vars>>

\* a cf_mempool_destroy that leaves the size-to-pool map as it was
mempool_destroy_clear_stale_map(t) ==
    LET th == mthread[t]
        pools == [g_pool_manager.pools EXCEPT ![th.handle] = pool_zero]
    IN
    /\ th.pc = "destroy_clear"
    /\ g_pool_manager' =
         [g_pool_manager EXCEPT
            !.pools = pools,
            !.pool_count = IF g_pool_manager.pool_count > 0
                           THEN g_pool_manager.pool_count - 1 ELSE 0,
            !.size_to_pool_map = g_pool_manager.size_to_pool_map,
            !.global_mutex = MUTEX_FREE]
    /\ settle(t, thread_done(th, NULL, "CF_OK"))
    /\ mhist' = Disturb(mhist, t)
    /\ UNCHANGED heap
    /\ UNCHANGED <<tp_vars, ev_vars>>

\* the rest of cf_mempool_destroy, under the lock of the manager only:
\* cf_mutex_destroy(pool->mutex), whoever holds it by now, memset, pool_count--,
\* update_size_to_pool_map, unlock
mempool_destroy_clear(t) ==
    LET th == mthread[t]
        pools == [g_pool_manager.pools EXCEPT ![th.handle] = pool_zero]
    IN
    /\ th.pc = "destroy_clear"
    /\ g_pool_manager' =
         [g_pool_manager EXCEPT
            !.pools = pools,
            !.pool_count = IF g_pool_manager.pool_count > 0
                           THEN g_pool_manager.pool_count - 1 ELSE 0,
            !.size_to_pool_map = update_size_to_pool_map(pools),
            !.global_mutex = MUTEX_FREE]
    /\ settle(t, thread_done(th, NULL, "CF_OK"))
    /\ mhist' = Disturb(mhist, t)
    /\ UNCHANGED heap
    /\ UNCHANGED <<tp_vars, ev_vars>>

\* cf_mempool_alloc_from_pool hands ptr back: to the task, or to cf_mempool_alloc
afp_return(th, ptr) ==
    CASE th.caller = "best" ->
            IF ptr # NULL THEN [th EXCEPT !.pc = "alloc_frag", !.ptr = ptr]
            ELSE [th EXCEPT !.pc = "alloc_fb_lock"]
      [] th.caller = "fallback" ->
            IF ptr # NULL THEN [th EXCEPT !.pc = "alloc_frag", !.ptr = ptr]
            ELSE [th EXCEPT !.pc = "alloc_fb_loop", !.i = th.i + 1]
      [] OTHER ->
            [thread_done(th, ptr, "CF_OK") EXCEPT
               !.held = IF ptr # NULL THEN th.held \cup {ptr} ELSE th.held]

\* entry of cf_mempool_alloc_from_pool for the task record th: validate_handle and the
\* unlocked check of current_used; h is the history the call starts with
afp_enter(t, th, h) ==
    LET pool == g_pool_manager.pools[th.handle] IN
    IF ~validate_handle(th.handle)
    THEN /\ settle(t, afp_return(th, NULL))
         /\ mhist' = Disturb(h, t)
         /\ UNCHANGED g_pool_manager
    ELSE IF ge32(pool.current_used, pool.block_count)
    THEN /\ g_pool_manager' = [g_pool_manager EXCEPT
                                 !.pools[th.handle] = count_failure(pool)]
         /\ settle(t, afp_return(th, NULL))
         /\ mhist' = Disturb(h, t)
    ELSE /\ settle(t, [th EXCEPT !.pc = "afp_lock"])
         /\ mhist' = Disturb(h, t)
         /\ UNCHANGED g_pool_manager

alloc_from_pool_begin(t, handle) ==
    /\ mthread[t].pc = "idle"
    /\ mhist.calls < MaxAllocCalls
    /\ afp_enter(t, [mthread[t] EXCEPT !.op = "alloc_from_pool", !.caller = "direct",
                                      !.handle = handle],
                 [Forget(mhist, t) EXCEPT !.calls = mhist.calls + 1])
    /\ UNCHANGED heap
    /\ UNCHANGED <<tp_vars, ev_vars>>

\* cf_mutex_lock(pool->mutex, 10): taken, or timed out while another task holds it, or
\* turned away because cf_mempool_destroy has cleared the slot since validate_handle and
\* the mutex is null
afp_lock(t) ==
    LET th == mthread[t]
        pool == g_pool_manager.pools[th.handle]
    IN
    /\ th.pc = "afp_lock"
    /\ IF pool.mutex = MUTEX_FREE
       THEN /\ g_pool_manager' = [g_pool_manager EXCEPT !.pools[th.handle].mutex = t]
            /\ settle(t, [mthread[t] EXCEPT !.pc = "afp_body"])
            /\ mhist' = Disturb(mhist, t)
       ELSE /\ pool.mutex \in Allocators \cup {MUTEX_NONE}
            /\ g_pool_manager' = [g_pool_manager EXCEPT
                                    !.pools[th.handle] = count_failure(pool)]
            /\ settle(t, afp_return(th, NULL))
            /\ mhist' = Disturb(mhist, t)
    /\ UNCHANGED heap
    /\ UNCHANGED <<tp_vars, ev_vars>>

\* the critical section: find_free_block, mark_block_used, statistics, hint, unlock
afp_body(t) ==
    LET th == mthread[t]
        pool == g_pool_manager.pools[th.handle]
        block_index == find_free_block(pool)
    IN
    /\ th.pc = "afp_body"
    /\ IF block_index = NO_POOL
       THEN /\ g_pool_manager' =
                 [g_pool_manager EXCEPT
                    !.pools[th.handle] = [count_failure(pool) EXCEPT
                                            !.mutex = cf_mutex_unlock(@)]]
            /\ settle(t, afp_return(th, NULL))
       ELSE /\ g_pool_manager' =
                 [g_pool_manager EXCEPT
                    !.pools[th.handle] =
                        [take_block(pool, block_index) EXCEPT
                            !.mutex = cf_mutex_unlock(@)]]
            /\ mthread' = [u \in Allocators |->
                             IF u = t
                             THEN [th EXCEPT !.pc = "afp_addr", !.block_index = block_index,
                                             !.last_freed = NULL]
                             ELSE [mthread[u] EXCEPT !.last_freed = NULL]]
            /\ mret' = no_return
    /\ mhist' = Disturb(mhist, t)
    /\ UNCHANGED heap
    /\ UNCHANGED <<tp_vars, ev_vars>>

\* get_block_address and the global allocation counter
afp_addr(t) ==
    LET th == mthread[t]
        pool == g_pool_manager.pools[th.handle]
    IN
    /\ th.pc = "afp_addr"
    /\ g_pool_manager' = [g_pool_manager EXCEPT
                            !.global_allocations = inc32(g_pool_manager.global_allocations)]
    /\ settle(t, afp_return(th, get_block_address(pool, th.block_index)))
    /\ mhist' = Disturb(mhist, t)
    /\ UNCHANGED heap
    /\ UNCHANGED <<tp_vars, ev_vars>>

\* a size check that also turns the largest size away
alloc_size_valid_below_max(size) == ~(size = 0 \/ size >= CF_MEMPOOL_MAX_SIZE)

\* the sizes cf_mempool_alloc accepts
alloc_size_valid(size) == ~(size = 0 \/ size > CF_MEMPOOL_MAX_SIZE)

\* cf_mempool_alloc: the checks, find_pool_for_size and the attempt on the best pool
alloc_begin(t, size) ==
    LET th == [mthread[t] EXCEPT !.op = "alloc"]
        best_pool == find_pool_for_size(size)
        h == [mhist EXCEPT !.calls = mhist.calls + 1,
                           !.snap[t] = [valid |-> TRUE, size |-> size, ptr |-> NULL,
                                        pools |-> g_pool_manager.pools]]
    IN
    /\ th.pc = "idle"
    /\ mhist.calls < MaxAllocCalls
    /\ IF ~alloc_size_valid(size) \/ ~g_pool_manager.initialized
       THEN /\ settle(t, thread_done(th, NULL, "CF_OK"))
            /\ mhist' = Disturb(h, t)
            /\ UNCHANGED g_pool_manager
       ELSE IF best_pool = NO_POOL
       THEN /\ settle(t, [th EXCEPT !.pc = "alloc_fb_lock", !.size = size])
            /\ mhist' = Disturb(h, t)
            /\ UNCHANGED g_pool_manager
       ELSE afp_enter(t, [th EXCEPT !.caller = "best",
                                    !.handle = best_pool, !.size = size], h)
    /\ UNCHANGED heap
    /\ UNCHANGED <<tp_vars, ev_vars>>

\* after a successful attempt: unlock the global mutex if the fallback loop holds it,
\* count fragmentation if the block is larger than the request, return the pointer
alloc_frag(t) ==
    LET th == mthread[t]
        pool == g_pool_manager.pools[th.handle]
        fragmented == pool.block_size > th.size
    IN
    /\ th.pc = "alloc_frag"
    /\ g_pool_manager' =
         [g_pool_manager EXCEPT
            !.global_mutex = IF th.caller = "fallback" THEN MUTEX_FREE ELSE @,
            !.pools[th.handle].fragmentation_count = IF fragmented THEN inc32(@) ELSE @,
            !.fragmentation_events = IF fragmented THEN inc32(@) ELSE @]
    /\ settle(t, [thread_done(th, th.ptr, "CF_OK") EXCEPT
                        !.held = th.held \cup {th.ptr}])
    /\ mhist' = [Disturb(mhist, t) EXCEPT
                   !.snap[t].ptr = th.ptr]
    /\ UNCHANGED heap
    /\ UNCHANGED <<tp_vars, ev_vars>>

alloc_fb_lock(t) ==
    /\ mthread[t].pc = "alloc_fb_lock"
    /\ g_pool_manager.global_mutex = MUTEX_FREE
    /\ g_pool_manager' = [g_pool_manager EXCEPT !.global_mutex = t]
    /\ settle(t, [mthread[t] EXCEPT !.pc = "alloc_fb_loop", !.i = 0,
                                                  !.caller = "fallback"])
    /\ mhist' = Disturb(mhist, t)
    /\ UNCHANGED heap
    /\ UNCHANGED <<tp_vars, ev_vars>>

\* one turn of the loop over all pools, or its end: unlock, count the global failure
alloc_fb_loop(t) ==
    LET th == mthread[t] IN
    /\ th.pc = "alloc_fb_loop"
    /\ IF th.i >= CF_MEMPOOL_MAX_POOLS
       THEN /\ g_pool_manager' =
                 [g_pool_manager EXCEPT
                    !.global_mutex = MUTEX_FREE,
                    !.global_failures = inc32(g_pool_manager.global_failures)]
            /\ settle(t, thread_done(th, NULL, "CF_OK"))
            /\ mhist' = Disturb(mhist, t)
       ELSE IF /\ g_pool_manager.pools[th.i].active
               /\ g_pool_manager.pools[th.i].block_size >= th.size
       THEN afp_enter(t, [th EXCEPT !.handle = th.i], mhist)
       ELSE /\ settle(t, [mthread[t] EXCEPT !.i = th.i + 1])
            /\ mhist' = Disturb(mhist, t)
            /\ UNCHANGED g_pool_manager
    /\ UNCHANGED heap
    /\ UNCHANGED <<tp_vars, ev_vars>>

\* cf_mempool_free up to the lock: find_pool_by_pointer and get_block_index
free_begin(t, ptr) ==
    LET th == [mthread[t] EXCEPT !.op = "free"]
        pool == find_pool_by_pointer(ptr)
        block_index == IF pool = NO_POOL THEN NO_POOL
                       ELSE get_block_index(g_pool_manager.pools[pool], ptr)
    IN
    /\ th.pc = "idle"
    /\ mhist' = Disturb(IF ptr # NULL /\ ptr = mhist.snap[t].ptr /\ ptr \in th.held
                        THEN mhist ELSE Forget(mhist, t), t)
    /\ settle(t, IF ptr = NULL THEN thread_done(th, NULL, "CF_OK")
          ELSE IF pool = NO_POOL \/ block_index = NO_POOL
          THEN thread_done(th, NULL, "CF_ERROR_INVALID_PARAM")
          ELSE [th EXCEPT !.pc = "free_lock", !.handle = pool,
                          !.block_index = block_index, !.ptr = ptr])
    /\ UNCHANGED <<g_pool_manager, heap>>
    /\ UNCHANGED <<tp_vars, ev_vars>>

\* cf_mutex_lock(pool->mutex, CF_WAIT_FOREVER), whose status cf_mempool_free does not
\* read: the call waits for the task that holds the mutex, and returns at once without
\* the mutex when cf_mempool_destroy has cleared the slot and the mutex is null
free_lock(t) ==
    LET th == mthread[t] IN
    /\ th.pc = "free_lock"
    /\ g_pool_manager.pools[th.handle].mutex \in {MUTEX_FREE, MUTEX_NONE}
    /\ g_pool_manager' =
         [g_pool_manager EXCEPT
            !.pools[th.handle].mutex = IF @ = MUTEX_FREE THEN t ELSE MUTEX_NONE]
    /\ settle(t, [mthread[t] EXCEPT !.pc = "free_body"])
    /\ mhist' = Disturb(mhist, t)
    /\ UNCHANGED heap
    /\ UNCHANGED <<tp_vars, ev_vars>>

is_double_free_unchecked(pool, block_index) == FALSE

\* the check "block is actually allocated" of cf_mempool_free
is_double_free(pool, block_index) == is_block_free(pool, block_index)

\* the pointers that are task u's: those it holds and the one its call in progress has
\* taken and is about to return
owned(u) ==
    LET th == mthread[u] IN
    th.held \cup
        (CASE th.pc = "afp_addr" ->
                {get_block_address(g_pool_manager.pools[th.handle], th.block_index)}
           [] th.pc = "alloc_frag" -> {th.ptr}
           [] OTHER -> {})

\* the critical section of cf_mempool_free
free_body(t) ==
    LET th == mthread[t]
        pool == g_pool_manager.pools[th.handle]
    IN
    /\ th.pc = "free_body"
    /\ IF is_double_free(pool, th.block_index)
       THEN /\ g_pool_manager' = [g_pool_manager EXCEPT
                                    !.pools[th.handle].mutex = cf_mutex_unlock(@)]
            /\ settle(t, [thread_done(th, NULL, "CF_ERROR_INVALID_STATE") EXCEPT
                                !.held = th.held \ {th.ptr}])
            /\ mhist' = [Disturb(mhist, t) EXCEPT !.robbed[t] = @ \ {th.ptr}]
       ELSE /\ g_pool_manager' =
                 [g_pool_manager EXCEPT
                    !.pools[th.handle] =
                        [release_block(pool, th.block_index) EXCEPT
                            !.mutex = cf_mutex_unlock(@)]]
            /\ settle(t, [thread_done(th, NULL, "CF_OK") EXCEPT
                                !.held = th.held \ {th.ptr},
                                !.last_freed = th.ptr])
            /\ mhist' = [Disturb(mhist, t) EXCEPT
                           !.robbed = [u \in Allocators |->
                                         IF u = t THEN mhist.robbed[u] \ {th.ptr}
                                         ELSE IF th.ptr \in owned(u)
                                         THEN mhist.robbed[u] \cup {th.ptr}
                                         ELSE mhist.robbed[u]]]
    /\ UNCHANGED heap
    /\ UNCHANGED <<tp_vars, ev_vars>>

\* cf_mempool_reset_stats up to its first lock
reset_stats_begin(t, handle) ==
    LET th == [mthread[t] EXCEPT !.op = "reset_stats"] IN
    /\ th.pc = "idle"
    /\ mhist.resets < MaxResets
    /\ mhist' = [Disturb(Forget(mhist, t), t) EXCEPT !.resets = mhist.resets + 1]
    /\ settle(t, IF handle = NO_POOL
          THEN IF ~g_pool_manager.initialized
               THEN thread_done(th, NULL, "CF_ERROR_NOT_INITIALIZED")
               ELSE [th EXCEPT !.pc = "reset_all_lock", !.caller = "all"]
          ELSE IF ~validate_handle(handle)
               THEN thread_done(th, NULL, "CF_ERROR_INVALID_PARAM")
               ELSE [th EXCEPT !.pc = "reset_lock", !.caller = "direct", !.handle = handle])
    /\ UNCHANGED <<g_pool_manager, heap>>
    /\ UNCHANGED <<tp_vars, ev_vars>>

reset_all_lock(t) ==
    /\ mthread[t].pc = "reset_all_lock"
    /\ g_pool_manager.global_mutex = MUTEX_FREE
    /\ g_pool_manager' = [g_pool_manager EXCEPT !.global_mutex = t]
    /\ settle(t, [mthread[t] EXCEPT !.pc = "reset_all_loop", !.i = 0])
    /\ mhist' = Disturb(mhist, t)
    /\ UNCHANGED heap
    /\ UNCHANGED <<tp_vars, ev_vars>>

\* one turn of the loop over all pools, or its end: global counters, unlock
reset_all_loop(t) ==
    LET th == mthread[t] IN
    /\ th.pc = "reset_all_loop"
    /\ IF th.i >= CF_MEMPOOL_MAX_POOLS
       THEN /\ g_pool_manager' =
                 [g_pool_manager EXCEPT
                    !.global_allocations = 0, !.global_failures = 0,
                    !.fragmentation_events = 0, !.global_mutex = MUTEX_FREE]
            /\ settle(t, thread_done(th, NULL, "CF_OK"))
       ELSE /\ settle(t, IF g_pool_manager.pools[th.i].active
                             THEN [th EXCEPT !.pc = "reset_lock", !.handle = th.i]
                             ELSE [th EXCEPT !.i = th.i + 1])
            /\ UNCHANGED g_pool_manager
    /\ mhist' = Disturb(mhist, t)
    /\ UNCHANGED heap
    /\ UNCHANGED <<tp_vars, ev_vars>>

\* cf_mutex_lock(pool->mutex, CF_WAIT_FOREVER), status not read, as in cf_mempool_free
reset_lock(t) ==
    LET th == mthread[t] IN
    /\ th.pc = "reset_lock"
    /\ g_pool_manager.pools[th.handle].mutex \in {MUTEX_FREE, MUTEX_NONE}
    /\ g_pool_manager' =
         [g_pool_manager EXCEPT
            !.pools[th.handle].mutex = IF @ = MUTEX_FREE THEN t ELSE MUTEX_NONE]
    /\ settle(t, [mthread[t] EXCEPT !.pc = "reset_body"])
    /\ mhist' = Disturb(mhist, t)
    /\ UNCHANGED heap
    /\ UNCHANGED <<tp_vars, ev_vars>>

reset_body(t) ==
    LET th == mthread[t]
        pool == g_pool_manager.pools[th.handle]
    IN
    /\ th.pc = "reset_body"
    /\ g_pool_manager' = [g_pool_manager EXCEPT
                            !.pools[th.handle] =
                                [reset_pool_stats(pool) EXCEPT
                                    !.mutex = cf_mutex_unlock(@)]]
    /\ settle(t, IF th.caller = "all"
                     THEN [th EXCEPT !.pc = "reset_all_loop", !.i = th.i + 1]
                     ELSE thread_done(th, NULL, "CF_OK"))
    /\ mhist' = [Disturb(mhist, t) EXCEPT !.used_at_reset[th.handle] = pool.current_used]
    /\ UNCHANGED heap
    /\ UNCHANGED <<tp_vars, ev_vars>>

(***************************************************************************)
(* The memory pool on its own                                              *)
(***************************************************************************)
\* a new pool after n successful calls of cf_mempool_alloc_from_pool, none freed:
\* blocks 0 .. n-1 are taken and the hint points at block n
filled_pool(block_size, block_count, memory, n) ==
    LET fresh == created_pool(block_size, block_count, memory, all_bits) IN
    [fresh EXCEPT
       !.free_mask_low = fresh.free_mask_low \ low_bits(n),
       !.free_mask_high = fresh.free_mask_high \ {b \in all_bits : b + MASK_BITS < n},
       !.current_used = n, !.total_allocations = n, !.peak_used = n,
       !.alloc_hint = n % block_count]

\* the manager before cf_mempool_init
MPZero ==
    /\ g_pool_manager = manager_zero
    /\ heap = {}
    /\ mthread = [t \in Allocators |-> mthread_idle]
    /\ mhist = mhist_zero
    /\ mret = no_return

\* the manager after cf_mempool_init, cf_mempool_create of 33 blocks of 2 bytes and of
\* 1 block of 1 byte, and 31 calls of cf_mempool_alloc_from_pool on the first pool by
\* other parts of the application; calls of the MaxAllocCalls allocations of the
\* behaviour are over
MPFilledAfter(calls) ==
    LET pools == [i \in POOL_SLOTS |->
                    IF i = 0 THEN filled_pool(2, 33, REGION_SPAN, 31)
                    ELSE IF i = 1 THEN created_pool(1, 1, 2 * REGION_SPAN, low_bits(1))
                    ELSE pool_zero]
    IN
    /\ g_pool_manager =
         [manager_zero EXCEPT
            !.initialized = TRUE, !.global_mutex = MUTEX_FREE,
            !.pools = pools, !.pool_count = 2,
            !.size_to_pool_map = update_size_to_pool_map(pools),
            !.global_allocations = 31]
    /\ heap = {REGION_SPAN, 2 * REGION_SPAN}
    /\ mthread = [t \in Allocators |-> mthread_idle]
    /\ mhist = [mhist_zero EXCEPT !.calls = calls]
    /\ mret = no_return

MPFilled == MPFilledAfter(0)

\* setting the pools up, allocating from a chosen pool and freeing
MPSetupNext ==
    \/ cf_mempool_init(Owner)
    \/ \E s \in 0..(CF_MEMPOOL_MAX_SIZE + 1), n \in BlockCounts :
          mempool_create_begin(Owner, s, n)
    \/ mempool_create_lock(Owner)
    \/ mempool_create_body(Owner)
    \/ \E t \in Allocators, h \in POOL_SLOTS \cup {NO_POOL} : alloc_from_pool_begin(t, h)
    \/ \E t \in Allocators : afp_lock(t)
    \/ \E t \in Allocators : afp_body(t)
    \/ \E t \in Allocators : afp_addr(t)
    \/ \E t \in Allocators :
          \E p \in mthread[t].held \cup {mthread[t].last_freed, NULL} : free_begin(t, p)
    \/ \E t \in Allocators : free_lock(t)
    \/ \E t \in Allocators : free_body(t)

\* every call of the memory pool
MPNext ==
    \/ cf_mempool_init(Owner)
    \/ \E s \in 0..(CF_MEMPOOL_MAX_SIZE + 1), n \in BlockCounts :
          mempool_create_begin(Owner, s, n)
    \/ mempool_create_lock(Owner)
    \/ mempool_create_body(Owner)
    \/ \E t \in Allocators, h \in POOL_SLOTS \cup {NO_POOL} : alloc_from_pool_begin(t, h)
    \/ \E t \in Allocators : afp_lock(t)
    \/ \E t \in Allocators : afp_body(t)
    \/ \E t \in Allocators : afp_addr(t)
    \/ \E t \in Allocators, s \in 0..(CF_MEMPOOL_MAX_SIZE + 1) : alloc_begin(t, s)
    \/ \E t \in Allocators : alloc_frag(t)
    \/ \E t \in Allocators : alloc_fb_lock(t)
    \/ \E t \in Allocators : alloc_fb_loop(t)
    \/ \E t \in Allocators :
          \E p \in mthread[t].held \cup {mthread[t].last_freed, NULL} : free_begin(t, p)
    \/ \E t \in Allocators : free_lock(t)
    \/ \E t \in Allocators : free_body(t)
    \/ \E h \in POOL_SLOTS \cup {NO_POOL} : reset_stats_begin(Owner, h)
    \/ reset_all_lock(Owner)
    \/ reset_all_loop(Owner)
    \/ reset_lock(Owner)
    \/ reset_body(Owner)

(***************************************************************************)
(* Bounds of the event bus                                                 *)
(***************************************************************************)
\* slots of the subscriber table (CF_EVENT_MAX_SUBSCRIBERS, a build option, default 32)
CF_EVENT_MAX_SUBSCRIBERS == 2

\* tasks that call the event bus
NumEventThreads == 2

\* successful calls of cf_event_init, cf_event_subscribe and cf_event_publish_data in
\* one behaviour
MaxEventInits == 2
MaxSubscribes == 2
MaxPublishes == 1

\* calls of cf_event_publish_data where the order of the deliveries is looked at
OrderedPublishes == 3

\* calls of cf_event_subscribe where slots of the table are given back and taken again
ReuseSubscribes == 3

\* event ids subscribed to and published (0 subscribes to every event)
EventIds == {0, 1, 2}

\* payload lengths published
DataSizes == {0, 2}

(***************************************************************************)
(* Event bus (cf_event.c)                                                  *)
(***************************************************************************)
NO_SLOT == -1

EventThreads == 1..NumEventThreads
SLOTS == 0..(CF_EVENT_MAX_SUBSCRIBERS - 1)

\* cf_event_subscriber_s after memset 0; callback stands for the pair
\* (callback, user_data) the subscriber registered, 0 for NULL
subscriber_zero == [active |-> FALSE, event_id |-> 0, callback |-> 0, mode |-> "SYNC"]

\* static cf_event_system_t g_event_system = {0}
event_system_zero ==
    [initialized |-> FALSE, mutex |-> MUTEX_NONE,
     subscribers |-> [i \in SLOTS |-> subscriber_zero],
     subscriber_count |-> 0, total_published |-> 0]

ethread_idle ==
    [pc |-> "idle", op |-> "none", event_id |-> 0, mode |-> "SYNC", handle |-> NO_SLOT,
     data |-> FALSE, size |-> 0, i |-> 0, status |-> "CF_OK"]

\* what is recorded of one publish call: its number, what was published, the subscribers
\* active since the call began, and whether it has returned CF_OK
no_call ==
    [pub |-> 0, event_id |-> 0, data |-> FALSE, size |-> 0, through |-> {},
     returned |-> FALSE]

ehist_zero ==
    [inits |-> 0, subs |-> 0, pubs |-> 0,
     sub_cap |-> MaxSubscribes,              \* calls of cf_event_subscribe the behaviour may make
     pub_cap |-> MaxPublishes,               \* calls of cf_event_publish_data the behaviour may make
     call |-> [t \in EventThreads |-> no_call],
     watch |-> FALSE,                        \* whether stale is kept
     stale |-> [t \in EventThreads |-> {}],  \* handles task t has unsubscribed with CF_OK
                                             \* and has not been handed by subscribe since
     enqueued |-> {}]

\* the call returns status (and, where the call has one, a handle or a count) to the task
ev_done(th, status) == [ethread_idle EXCEPT !.status = status]

no_result == [task |-> 0, status |-> "CF_OK", handle |-> NO_SLOT, count |-> 0]

\* task t goes on as next: one more step inside its call, or the return to the task
esettle(t, next) ==
    /\ ethread' = [ethread EXCEPT ![t] = IF next.pc = "idle" THEN ethread_idle ELSE next]
    /\ eret' = IF next.pc = "idle"
               THEN [task |-> t, status |-> next.status, handle |-> next.handle,
                     count |-> next.i]
               ELSE no_result

\* the subscribers of the table that are active
ActiveSubscribers(subscribers) ==
    {[callback |-> subscribers[i].callback, event_id |-> subscribers[i].event_id,
      mode |-> subscribers[i].mode] : i \in {j \in SLOTS : subscribers[j].active}}

\* the table changed to subscribers: calls in progress lose the subscribers that went
Deactivate(h, subscribers) ==
    [h EXCEPT !.call =
        [t \in EventThreads |->
            IF h.call[t].returned THEN h.call[t]
            ELSE [h.call[t] EXCEPT
                    !.through = @ \cap ActiveSubscribers(subscribers)]]]

\* cf_mutex_unlock(g_event_system.mutex) by task t
event_unlock(mutex, t) == IF mutex = t THEN MUTEX_FREE ELSE mutex

\* a search that stops one slot short of the end of the table
find_free_subscriber_slot_short(subscribers) ==
    LET searched == SLOTS \ {CF_EVENT_MAX_SUBSCRIBERS - 1} IN
    IF \A i \in searched : subscribers[i].active THEN NO_SLOT
    ELSE SetMin({i \in searched : ~subscribers[i].active})

find_free_subscriber_slot(subscribers) ==
    IF \A i \in SLOTS : subscribers[i].active THEN NO_SLOT
    ELSE SetMin({i \in SLOTS : ~subscribers[i].active})

matches_exact_only(sub, event_id) == sub.event_id = event_id

\* the test of the publish loop on an active slot: the event or the wildcard 0
matches(sub, event_id) == sub.event_id = event_id \/ sub.event_id = 0

\* the length event_dispatch_task hands to the callback
dispatched_size_zero(ctx) == 0

dispatched_size(ctx) == ctx.data_size

cf_event_get_subscriber_count ==
    IF ~g_event_system.initialized THEN 0 ELSE g_event_system.subscriber_count

cf_event_init(t) ==
    /\ ethread[t].pc = "idle"
    /\ IF g_event_system.initialized
       THEN /\ esettle(t, ev_done(ethread[t], "CF_ERROR_ALREADY_INITIALIZED"))
            /\ UNCHANGED <<g_event_system, ehist>>
       ELSE /\ ehist.inits < MaxEventInits
            /\ \E created \in BOOLEAN :
                 IF ~created
                 THEN /\ esettle(t, ev_done(ethread[t], "CF_ERROR_NO_MEMORY"))
                      /\ UNCHANGED <<g_event_system, ehist>>
                 ELSE /\ g_event_system' =
                           [event_system_zero EXCEPT !.mutex = MUTEX_FREE,
                                                     !.initialized = TRUE]
                      /\ esettle(t, ev_done(ethread[t], "CF_OK"))
                      /\ ehist' = [Deactivate(ehist, event_system_zero.subscribers)
                                     EXCEPT !.inits = ehist.inits + 1]
    /\ UNCHANGED <<elog, tp_vars, mp_vars>>

cf_event_deinit_begin(t) ==
    /\ ethread[t].pc = "idle"
    /\ esettle(t, IF ~g_event_system.initialized THEN ev_done(ethread[t], "CF_OK")
                     ELSE [ethread[t] EXCEPT !.pc = "lock", !.op = "deinit"])
    /\ UNCHANGED <<g_event_system, ehist, elog, tp_vars, mp_vars>>

\* cf_mutex_lock(g_event_system.mutex, CF_WAIT_FOREVER): the caller waits for the mutex
event_lock(t) ==
    /\ ethread[t].pc = "lock"
    /\ g_event_system.mutex = MUTEX_FREE
    /\ g_event_system' = [g_event_system EXCEPT !.mutex = t]
    /\ esettle(t, [ethread[t] EXCEPT !.pc = ethread[t].op])
    /\ UNCHANGED <<ehist, elog, tp_vars, mp_vars>>

\* the same call on the handle of a destroyed mutex: the take is undefined and its result
\* is not looked at, so the caller goes on without the mutex (or the take never returns:
\* then no step is taken)
event_lock_destroyed(t) ==
    /\ ethread[t].pc = "lock"
    /\ g_event_system.mutex = MUTEX_DESTROYED
    /\ esettle(t, [ethread[t] EXCEPT !.pc = ethread[t].op])
    /\ UNCHANGED <<g_event_system, ehist, elog, tp_vars, mp_vars>>

\* memset of the table, subscriber_count = 0, unlock
cf_event_deinit_clear(t) ==
    /\ ethread[t].pc = "deinit"
    /\ g_event_system' =
         [g_event_system EXCEPT
            !.subscribers = event_system_zero.subscribers,
            !.subscriber_count = 0,
            !.mutex = event_unlock(g_event_system.mutex, t)]
    /\ esettle(t, [ethread[t] EXCEPT !.pc = "deinit_destroy"])
    /\ ehist' = Deactivate(ehist, event_system_zero.subscribers)
    /\ UNCHANGED <<elog, tp_vars, mp_vars>>

cf_event_deinit_destroy(t) ==
    /\ ethread[t].pc = "deinit_destroy"
    /\ g_event_system' = [g_event_system EXCEPT !.mutex = MUTEX_DESTROYED]
    /\ esettle(t, [ethread[t] EXCEPT !.pc = "deinit_flag"])
    /\ UNCHANGED <<ehist, elog, tp_vars, mp_vars>>

cf_event_deinit_flag(t) ==
    /\ ethread[t].pc = "deinit_flag"
    /\ g_event_system' = [g_event_system EXCEPT !.initialized = FALSE]
    /\ esettle(t, ev_done(ethread[t], "CF_OK"))
    /\ UNCHANGED <<ehist, elog, tp_vars, mp_vars>>

cf_event_subscribe_begin(t, event_id, callback_given, mode) ==
    /\ ethread[t].pc = "idle"
    /\ ehist.subs < ehist.sub_cap
    /\ esettle(t, IF ~callback_given THEN ev_done(ethread[t], "CF_ERROR_NULL_POINTER")
                     ELSE IF ~g_event_system.initialized
                     THEN ev_done(ethread[t], "CF_ERROR_NOT_INITIALIZED")
                     ELSE [ethread[t] EXCEPT !.pc = "lock", !.op = "subscribe",
                                    !.event_id = event_id, !.mode = mode])
    /\ UNCHANGED <<g_event_system, ehist, elog, tp_vars, mp_vars>>

\* find_free_subscriber_slot, the registration, subscriber_count++, the handle, unlock
cf_event_subscribe_body(t) ==
    LET th == ethread[t]
        slot == find_free_subscriber_slot(g_event_system.subscribers)
    IN
    /\ th.pc = "subscribe"
    /\ IF slot = NO_SLOT
       THEN /\ g_event_system' = [g_event_system EXCEPT
                                    !.mutex = event_unlock(g_event_system.mutex, t)]
            /\ esettle(t, ev_done(th, "CF_ERROR_NO_MEMORY"))
            /\ UNCHANGED ehist
       ELSE /\ g_event_system' =
                 [g_event_system EXCEPT
                    !.subscribers[slot] =
                        [active |-> TRUE, event_id |-> th.event_id,
                         callback |-> ehist.subs + 1, mode |-> th.mode],
                    !.subscriber_count = inc32(g_event_system.subscriber_count),
                    !.mutex = event_unlock(g_event_system.mutex, t)]
            /\ esettle(t, [ev_done(th, "CF_OK") EXCEPT !.handle = slot])
            /\ ehist' = [ehist EXCEPT !.subs = ehist.subs + 1, !.stale[t] = IF ehist.watch THEN @ \ {slot} ELSE @]
    /\ UNCHANGED <<elog, tp_vars, mp_vars>>

cf_event_unsubscribe_begin(t, handle) ==
    /\ ethread[t].pc = "idle"
    /\ esettle(t, IF handle = NO_SLOT THEN ev_done(ethread[t], "CF_ERROR_NULL_POINTER")
                     ELSE IF ~g_event_system.initialized
                     THEN ev_done(ethread[t], "CF_ERROR_NOT_INITIALIZED")
                     ELSE [ethread[t] EXCEPT !.pc = "lock", !.op = "unsubscribe",
                                    !.handle = handle])
    /\ UNCHANGED <<g_event_system, ehist, elog, tp_vars, mp_vars>>

\* the range check, the active check, the deactivation, subscriber_count--, unlock
cf_event_unsubscribe_body(t) ==
    LET th == ethread[t]
        found == th.handle \in SLOTS /\ g_event_system.subscribers[th.handle].active
        subscribers == IF found
                       THEN [g_event_system.subscribers EXCEPT ![th.handle].active = FALSE]
                       ELSE g_event_system.subscribers
    IN
    /\ th.pc = "unsubscribe"
    /\ g_event_system' =
         [g_event_system EXCEPT
            !.subscribers = subscribers,
            !.subscriber_count = IF found THEN dec32(@) ELSE @,
            !.mutex = event_unlock(g_event_system.mutex, t)]
    /\ esettle(t, ev_done(th, IF th.handle \notin SLOTS THEN "CF_ERROR_INVALID_PARAM"
                                  ELSE IF ~found THEN "CF_ERROR_NOT_FOUND"
                                  ELSE "CF_OK"))
    /\ ehist' = [Deactivate(ehist, subscribers) EXCEPT
                   !.stale[t] = IF found /\ ehist.watch THEN @ \cup {th.handle} ELSE @]
    /\ UNCHANGED <<elog, tp_vars, mp_vars>>

\* a test that takes the subscribers of every event along, as the publish loop does
unsubscribe_all_matches_as_publish(sub, event_id) ==
    sub.active /\ (sub.event_id = event_id \/ sub.event_id = 0)

\* the test of the loop of cf_event_unsubscribe_all
unsubscribe_all_matches(sub, event_id) == sub.active /\ sub.event_id = event_id

cf_event_unsubscribe_all_begin(t, event_id) ==
    /\ ethread[t].pc = "idle"
    /\ esettle(t, IF ~g_event_system.initialized THEN ev_done(ethread[t], "CF_OK")
                     ELSE [ethread[t] EXCEPT !.pc = "lock", !.op = "unsubscribe_all",
                                    !.event_id = event_id])
    /\ UNCHANGED <<g_event_system, ehist, elog, tp_vars, mp_vars>>

\* the loop over the table under the mutex, unlock
cf_event_unsubscribe_all_body(t) ==
    LET th == ethread[t]
        hit == {i \in SLOTS :
                    unsubscribe_all_matches(g_event_system.subscribers[i], th.event_id)}
        subscribers == [i \in SLOTS |->
                          IF i \in hit
                          THEN [g_event_system.subscribers[i] EXCEPT !.active = FALSE]
                          ELSE g_event_system.subscribers[i]]
    IN
    /\ th.pc = "unsubscribe_all"
    /\ g_event_system' =
         [g_event_system EXCEPT
            !.subscribers = subscribers,
            !.subscriber_count = @ - Cardinality(hit),
            !.mutex = event_unlock(g_event_system.mutex, t)]
    /\ esettle(t, [ev_done(th, "CF_OK") EXCEPT !.i = Cardinality(hit)])
    /\ ehist' = Deactivate(ehist, subscribers)
    /\ UNCHANGED <<elog, tp_vars, mp_vars>>

\* a check that lets every payload through
null_payload_unchecked(data, data_size) == FALSE

\* the payload cf_event_publish_data turns away: a length without a pointer
null_payload(data, data_size) == data_size > 0 /\ ~data

\* cf_event_publish_data up to the lock
cf_event_publish_begin(t, event_id, data, size) ==
    /\ ethread[t].pc = "idle"
    /\ ehist.pubs < ehist.pub_cap
    /\ IF ~g_event_system.initialized
       THEN /\ esettle(t, ev_done(ethread[t], "CF_ERROR_NOT_INITIALIZED"))
            /\ ehist' = [ehist EXCEPT !.call[t] = no_call]
       ELSE IF null_payload(data, size)
       THEN /\ esettle(t, ev_done(ethread[t], "CF_ERROR_NULL_POINTER"))
            /\ ehist' = [ehist EXCEPT !.call[t] = no_call]
       ELSE /\ esettle(t, [ethread[t] EXCEPT !.pc = "lock", !.op = "publish",
                                       !.event_id = event_id, !.data = data,
                                       !.size = size])
            /\ ehist' = [ehist EXCEPT
                           !.pubs = ehist.pubs + 1,
                           !.call[t] = [pub |-> ehist.pubs + 1, event_id |-> event_id,
                                        data |-> data, size |-> size,
                                        through |-> ActiveSubscribers(
                                                        g_event_system.subscribers),
                                        returned |-> FALSE]]
    /\ UNCHANGED <<g_event_system, elog, tp_vars, mp_vars>>

\* total_published++ and the start of the loop
cf_event_publish_count(t) ==
    /\ ethread[t].pc = "publish"
    /\ g_event_system' = [g_event_system EXCEPT
                            !.total_published = inc32(g_event_system.total_published)]
    /\ esettle(t, [ethread[t] EXCEPT !.pc = "publish_loop", !.i = 0])
    /\ UNCHANGED <<ehist, elog, tp_vars, mp_vars>>

\* a slot of the loop that is inactive or does not match
cf_event_publish_skip(t) ==
    LET th == ethread[t] IN
    /\ th.pc = "publish_loop"
    /\ th.i < CF_EVENT_MAX_SUBSCRIBERS
    /\ \/ ~g_event_system.subscribers[th.i].active
       \/ ~matches(g_event_system.subscribers[th.i], th.event_id)
    /\ esettle(t, [ethread[t] EXCEPT !.i = th.i + 1])
    /\ UNCHANGED <<g_event_system, ehist, elog, tp_vars, mp_vars>>

\* a delivery that runs the callback out of turn, ahead of the invocations before it
deliver_sync_out_of_turn(t) ==
    LET th == ethread[t]
        sub == g_event_system.subscribers[th.i]
    IN
    /\ th.pc = "publish_loop"
    /\ th.i < CF_EVENT_MAX_SUBSCRIBERS
    /\ sub.active
    /\ matches(sub, th.event_id)
    /\ sub.mode = "SYNC"
    /\ elog' = << [callback |-> sub.callback, event_id |-> th.event_id,
                   size |-> th.size, pub |-> ehist.call[t].pub,
                   by |-> <<"task", t>>] >> \o elog
    /\ esettle(t, [ethread[t] EXCEPT !.i = th.i + 1])
    /\ UNCHANGED <<g_event_system, ehist, tp_vars, mp_vars>>

\* deliver_to_subscriber, CF_EVENT_SYNC: the callback runs on the publisher's thread
deliver_sync(t) ==
    LET th == ethread[t]
        sub == g_event_system.subscribers[th.i]
    IN
    /\ th.pc = "publish_loop"
    /\ th.i < CF_EVENT_MAX_SUBSCRIBERS
    /\ sub.active
    /\ matches(sub, th.event_id)
    /\ sub.mode = "SYNC"
    /\ elog' = Append(elog, [callback |-> sub.callback, event_id |-> th.event_id,
                             size |-> th.size, pub |-> ehist.call[t].pub,
                             by |-> <<"task", t>>])
    /\ esettle(t, [ethread[t] EXCEPT !.i = th.i + 1])
    /\ UNCHANGED <<g_event_system, ehist, tp_vars, mp_vars>>

\* the dispatch record deliver_to_subscriber fills in for an asynchronous subscriber
cf_event_dispatch_ctx_t(sub, event_id, data, data_size, pub) ==
    [event_id |-> event_id, callback |-> sub.callback,
     data |-> data /\ data_size > 0, data_size |-> data_size, pub |-> pub]

\* deliver_to_subscriber, CF_EVENT_ASYNC: the record, the copy of the payload and
\* cf_threadpool_submit(event_dispatch_task, ctx, NORMAL, 100); any of the three may fail
deliver_async(t) ==
    LET th == ethread[t]
        sub == g_event_system.subscribers[th.i]
        ctx == cf_event_dispatch_ctx_t(sub, th.event_id, th.data, th.size,
                                       ehist.call[t].pub)
        queue == g_threadpool.queue_normal
        task == cf_threadpool_task_t("event_dispatch_task", ctx, "NORMAL")
    IN
    /\ th.pc = "publish_loop"
    /\ th.i < CF_EVENT_MAX_SUBSCRIBERS
    /\ sub.active
    /\ matches(sub, th.event_id)
    /\ sub.mode = "ASYNC"
    /\ esettle(t, [ethread[t] EXCEPT !.i = th.i + 1])
    /\ \E ctx_allocated \in BOOLEAN, data_allocated \in BOOLEAN :
          IF \/ ~ctx_allocated
             \/ ctx.data /\ ~data_allocated
             \/ ~g_threadpool.initialized
             \/ g_threadpool.state # "RUNNING"
             \/ cf_queue_is_full(queue)
          THEN UNCHANGED <<g_threadpool, ehist>>
          ELSE /\ g_threadpool.mutex
               /\ g_threadpool' =
                    [g_threadpool EXCEPT
                       !.queue_normal.items = Append(queue.items, task),
                       !.total_submitted = inc32(g_threadpool.total_submitted)]
               /\ ehist' = [ehist EXCEPT
                              !.enqueued = @ \cup {[pub |-> ctx.pub,
                                                    callback |-> ctx.callback,
                                                    size |-> th.size]}]
    /\ UNCHANGED <<g_event_system, elog, worker, client, tracer, hist, mp_vars>>

\* the end of the loop: unlock, return CF_OK
cf_event_publish_end(t) ==
    LET th == ethread[t] IN
    /\ th.pc = "publish_loop"
    /\ th.i >= CF_EVENT_MAX_SUBSCRIBERS
    /\ g_event_system' = [g_event_system EXCEPT
                            !.mutex = event_unlock(g_event_system.mutex, t)]
    /\ esettle(t, ev_done(th, "CF_OK"))
    /\ ehist' = [ehist EXCEPT !.call[t].returned = TRUE]
    /\ UNCHANGED <<elog, tp_vars, mp_vars>>

\* a subscriber callback that itself publishes, as bad_handler of the README does; the
\* callbacks cf_event_subscribe registers are numbered from 1 to MaxSubscribes
bad_handler == MaxSubscribes + 1

\* the event bad_handler publishes
ANOTHER_EVENT == 2

\* the callback invoked by deliver_sync returns without calling the bus
callback_returns(t) ==
    g_event_system.subscribers[ethread[t].i].callback # bad_handler

\* deliver_to_subscriber, CF_EVENT_SYNC, for bad_handler: the callback runs on the
\* publisher's thread, inside the loop and under the mutex, and calls
\* cf_event_publish(ANOTHER_EVENT): cf_event_publish_data(ANOTHER_EVENT, NULL, 0) passes
\* its checks and calls cf_mutex_lock(g_event_system.mutex, CF_WAIT_FOREVER). The task
\* is from here on in the nested call; it would come back to the loop after it
bad_handler_publish(t) ==
    LET th == ethread[t]
        sub == g_event_system.subscribers[th.i]
    IN
    /\ th.pc = "publish_loop"
    /\ th.i < CF_EVENT_MAX_SUBSCRIBERS
    /\ sub.active
    /\ matches(sub, th.event_id)
    /\ sub.mode = "SYNC"
    /\ sub.callback = bad_handler
    /\ g_event_system.initialized
    /\ elog' = Append(elog, [callback |-> sub.callback, event_id |-> th.event_id,
                             size |-> th.size, pub |-> ehist.call[t].pub,
                             by |-> <<"task", t>>])
    /\ esettle(t, [ethread[t] EXCEPT !.pc = "lock", !.op = "publish",
                                     !.event_id = ANOTHER_EVENT, !.data = FALSE,
                                     !.size = 0])
    /\ UNCHANGED <<g_event_system, ehist, tp_vars, mp_vars>>

\* task.function(task.arg) for event_dispatch_task: the callback runs on the worker
event_dispatch_task(w) ==
    LET ctx == worker[w].task.arg IN
    /\ worker[w].pc = "exec"
    /\ worker[w].task.function = "event_dispatch_task"
    /\ elog' = Append(elog, [callback |-> ctx.callback, event_id |-> ctx.event_id,
                             size |-> dispatched_size(ctx), pub |-> ctx.pub,
                             by |-> <<"worker", w>>])
    /\ worker' = [worker EXCEPT ![w].pc = "complete"]
    /\ UNCHANGED <<g_threadpool, client, tracer, hist, g_event_system, ethread, eret,
                   ehist, mp_vars>>

(***************************************************************************)
(* The event bus on its own                                                *)
(***************************************************************************)
EVZero ==
    /\ g_event_system = event_system_zero
    /\ ethread = [t \in EventThreads |-> ethread_idle]
    /\ eret = no_result
    /\ elog = << >>
    /\ ehist = ehist_zero

\* the life cycle of the bus and the subscriber table
EVNext ==
    \/ cf_event_init(Owner)
    \/ cf_event_deinit_begin(Owner)
    \/ \E t \in EventThreads : event_lock(t)
    \/ \E t \in EventThreads : event_lock_destroyed(t)
    \/ cf_event_deinit_clear(Owner)
    \/ cf_event_deinit_destroy(Owner)
    \/ cf_event_deinit_flag(Owner)
    \/ \E t \in EventThreads, id \in EventIds, cb \in BOOLEAN, m \in {"SYNC", "ASYNC"} :
          cf_event_subscribe_begin(t, id, cb, m)
    \/ \E t \in EventThreads : cf_event_subscribe_body(t)
    \/ \E t \in EventThreads, h \in SLOTS \cup {NO_SLOT, CF_EVENT_MAX_SUBSCRIBERS} :
          cf_event_unsubscribe_begin(t, h)
    \/ \E t \in EventThreads : cf_event_unsubscribe_body(t)
    \/ \E t \in EventThreads, id \in EventIds : cf_event_unsubscribe_all_begin(t, id)
    \/ \E t \in EventThreads : cf_event_unsubscribe_all_body(t)

\* publishing on an initialised bus while subscribers leave, over a running thread pool:
\* task Owner publishes, the other tasks unsubscribe
PubNext ==
    \/ \E t \in EventThreads \ {Owner},
          h \in SLOTS \cup {NO_SLOT, CF_EVENT_MAX_SUBSCRIBERS} :
             cf_event_unsubscribe_begin(t, h)
    \/ \E t \in EventThreads : cf_event_unsubscribe_body(t)
    \/ \E t \in EventThreads : event_lock(t)
    \/ \E id \in EventIds, d \in BOOLEAN, n \in DataSizes :
          cf_event_publish_begin(Owner, id, d, n)
    \/ cf_event_publish_count(Owner)
    \/ cf_event_publish_skip(Owner)
    \/ deliver_sync(Owner)
    \/ deliver_async(Owner)
    \/ cf_event_publish_end(Owner)
    \/ \E w \in Workers : worker_loop(w)
    \/ \E w \in Workers : worker_receive(w)
    \/ \E w \in Workers : worker_begin_task(w)
    \/ \E w \in Workers : event_dispatch_task(w)
    \/ \E w \in Workers : worker_complete(w)

(***************************************************************************)
(* Specifications                                                          *)
(***************************************************************************)
\* the static initial state of the three subsystems
Init == TPInit /\ MPZero /\ EVZero

\* the thread pool from its static initial state
SpecTP == Init /\ [][TPNext]_vars

\* a running pool with one worker
PrioStart == PrioInit /\ MPZero /\ EVZero

SpecPrio == PrioStart /\ [][PrioNext]_vars

\* the same with workers that are scheduled fairly and tasks that terminate
SpecPrioFair ==
    /\ PrioStart
    /\ [][PrioNext]_vars
    /\ \A w \in Workers :
          /\ WF_vars(worker_loop(w))
          /\ WF_vars(worker_receive(w))
          /\ WF_vars(worker_begin_task(w))
          /\ WF_vars(worker_run_task(w))
          /\ WF_vars(worker_complete(w))

\* the memory pool manager from its static initial state: pools are set up and used
SpecMP == Init /\ [][MPSetupNext]_vars

\* the memory pool manager in use: two pools, the larger one nearly full
MPUseInit == TPInit /\ MPFilled /\ EVZero

SpecMPUse == MPUseInit /\ [][MPNext]_vars

\* pool tables the manager can be left with by cf_mempool_create and cf_mempool_destroy:
\* every slot is free or holds a new pool of one block of 1..CF_MEMPOOL_MAX_SIZE bytes
one_block_pools(sizes) ==
    [i \in POOL_SLOTS |->
        IF sizes[i] = 0 THEN pool_zero
        ELSE created_pool(sizes[i], 1, (i + 1) * REGION_SPAN, low_bits(1))]

\* an initialised manager over such a table, no call in progress
AllocInit ==
    /\ TPInit
    /\ EVZero
    /\ \E sizes \in [POOL_SLOTS -> 0..CF_MEMPOOL_MAX_SIZE] :
          LET pools == one_block_pools(sizes) IN
          /\ g_pool_manager =
               [manager_zero EXCEPT
                  !.initialized = TRUE, !.global_mutex = MUTEX_FREE,
                  !.pools = pools,
                  !.pool_count = Cardinality({i \in POOL_SLOTS : pools[i].active}),
                  !.size_to_pool_map = update_size_to_pool_map(pools)]
          /\ heap = {pools[i].memory_base : i \in {j \in POOL_SLOTS : pools[j].active}}
    /\ mthread = [t \in Allocators |-> mthread_idle]
    /\ mhist = mhist_zero
    /\ mret = no_return

\* allocating by size and from a chosen pool, and freeing
AllocNext ==
    \/ \E t \in Allocators, h \in POOL_SLOTS : alloc_from_pool_begin(t, h)
    \/ \E t \in Allocators : afp_lock(t)
    \/ \E t \in Allocators : afp_body(t)
    \/ \E t \in Allocators : afp_addr(t)
    \/ \E t \in Allocators, s \in 0..(CF_MEMPOOL_MAX_SIZE + 1) : alloc_begin(t, s)
    \/ \E t \in Allocators : alloc_frag(t)
    \/ \E t \in Allocators : alloc_fb_lock(t)
    \/ \E t \in Allocators : alloc_fb_loop(t)
    \/ \E t \in Allocators : \E p \in mthread[t].held : free_begin(t, p)
    \/ \E t \in Allocators : free_lock(t)
    \/ \E t \in Allocators : free_body(t)

\* the smart allocator over pool tables of every shape
SpecAlloc == AllocInit /\ [][AllocNext]_vars

\* the event bus from its static initial state
SpecEV == Init /\ [][EVNext]_vars

\* the table after cf_event_subscribe(1, ...) and cf_event_subscribe(0, ...) with modes
\* mode0 and mode1
subscribed(mode0, mode1) ==
    [i \in SLOTS |->
        IF i = 0
        THEN [active |-> TRUE, event_id |-> 1, callback |-> 1, mode |-> mode0]
        ELSE IF i = 1
        THEN [active |-> TRUE, event_id |-> 0, callback |-> 2, mode |-> mode1]
        ELSE subscriber_zero]

\* an initialised bus with two subscribers, one of event 1 and one of every event, over
\* a running thread pool with one worker and queues of one task
PubInit ==
    /\ g_threadpool = [init_resources(1, 1) EXCEPT !.workers = TRUE, !.initialized = TRUE]
    /\ worker = [w \in Workers |-> IF w = 1 THEN [worker_none EXCEPT !.pc = "loop"]
                                   ELSE worker_none]
    /\ client = [c \in Clients |-> client_idle]
    /\ tracer = << >>
    /\ hist = [hist_zero EXCEPT !.inits = 1, !.queue_size = 1,
                                !.live = pool_objects]
    /\ MPZero
    /\ \E mode0 \in {"SYNC", "ASYNC"}, mode1 \in {"SYNC", "ASYNC"} :
          g_event_system = [event_system_zero EXCEPT
                              !.mutex = MUTEX_FREE, !.initialized = TRUE,
                              !.subscribers = subscribed(mode0, mode1),
                              !.subscriber_count = 2]
    /\ ethread = [t \in EventThreads |-> ethread_idle]
    /\ eret = no_result
    /\ elog = << >>
    /\ ehist = [ehist_zero EXCEPT !.inits = 1, !.subs = 2]

SpecPub == PubInit /\ [][PubNext]_vars

\* an initialised bus with two synchronous subscribers: callback 1 for event 1, and
\* bad_handler for every event
NestedInit ==
    /\ TPInit
    /\ MPZero
    /\ g_event_system = [event_system_zero EXCEPT
                           !.mutex = MUTEX_FREE, !.initialized = TRUE,
                           !.subscribers = [subscribed("SYNC", "SYNC") EXCEPT
                                              ![1].callback = bad_handler],
                           !.subscriber_count = 2]
    /\ ethread = [t \in EventThreads |-> ethread_idle]
    /\ eret = no_result
    /\ elog = << >>
    /\ ehist = [ehist_zero EXCEPT !.inits = 1, !.subs = 2]

\* task Owner publishes to callbacks that return and to bad_handler, the other tasks
\* unsubscribe
NestedNext ==
    \/ \E t \in EventThreads \ {Owner},
          h \in SLOTS \cup {NO_SLOT, CF_EVENT_MAX_SUBSCRIBERS} :
             cf_event_unsubscribe_begin(t, h)
    \/ \E t \in EventThreads : cf_event_unsubscribe_body(t)
    \/ \E t \in EventThreads : event_lock(t)
    \/ \E id \in EventIds, d \in BOOLEAN, n \in DataSizes :
          cf_event_publish_begin(Owner, id, d, n)
    \/ cf_event_publish_count(Owner)
    \/ cf_event_publish_skip(Owner)
    \/ deliver_sync(Owner) /\ callback_returns(Owner)
    \/ bad_handler_publish(Owner)
    \/ cf_event_publish_end(Owner)

SpecNested == NestedInit /\ [][NestedNext]_vars

\* an initialised bus with a synchronous subscriber of every event and, unless it has
\* unsubscribed, one of event 1; OrderedPublishes calls of cf_event_publish lie ahead
OrderInit ==
    /\ TPInit
    /\ MPZero
    /\ \E first \in BOOLEAN :
          g_event_system = [event_system_zero EXCEPT
                              !.mutex = MUTEX_FREE, !.initialized = TRUE,
                              !.subscribers = [subscribed("SYNC", "SYNC") EXCEPT
                                                 ![0].active = first],
                              !.subscriber_count = IF first THEN 2 ELSE 1]
    /\ ethread = [t \in EventThreads |-> ethread_idle]
    /\ eret = no_result
    /\ elog = << >>
    /\ ehist = [ehist_zero EXCEPT !.inits = 1, !.subs = 2, !.pub_cap = OrderedPublishes]

\* every task publishes events 1 and 2 with cf_event_publish
OrderNext ==
    \/ \E t \in EventThreads, id \in EventIds \ {0} :
          cf_event_publish_begin(t, id, FALSE, 0)
    \/ \E t \in EventThreads : event_lock(t)
    \/ \E t \in EventThreads : cf_event_publish_count(t)
    \/ \E t \in EventThreads : cf_event_publish_skip(t)
    \/ \E t \in EventThreads : deliver_sync(t)
    \/ \E t \in EventThreads : cf_event_publish_end(t)

SpecOrder == OrderInit /\ [][OrderNext]_vars

\* a uint32_t as the set of its bits that are 1; n is a value of 0 .. 2^31 - 1
uint32_t(n) == {b \in 0..30 : (n \div (2 ^ b)) % 2 = 1}

\* w << n and w >> n on a uint32_t
shl32(w, n) == {b + n : b \in w} \cap (0..31)
shr32(w, n) == {b - n : b \in {c \in w : c >= n}}

CF_EVENT_DOMAIN_SHIFT == 16
\* 0x0000FFFF
CF_EVENT_ID_MASK == 0..15
\* 0xFFFF0000
CF_EVENT_DOMAIN_MASK == 16..31

\* the shift made in a 16-bit int, without the cast to uint32_t
CF_EVENT_MAKE_ID_int16(domain, event) ==
    ({b + CF_EVENT_DOMAIN_SHIFT : b \in uint32_t(domain)} \cap (0..15))
        \cup (uint32_t(event) \cap CF_EVENT_ID_MASK)

CF_EVENT_MAKE_ID(domain, event) ==
    shl32(uint32_t(domain), CF_EVENT_DOMAIN_SHIFT) \cup (uint32_t(event) \cap CF_EVENT_ID_MASK)

CF_EVENT_GET_DOMAIN(event_id) ==
    shr32(event_id \cap CF_EVENT_DOMAIN_MASK, CF_EVENT_DOMAIN_SHIFT)

CF_EVENT_GET_EVENT(event_id) == event_id \cap CF_EVENT_ID_MASK

\* the 16-bit domains and event numbers the ids are made of: 0x0000, 0x0001, 0x0100,
\* 0x0FFF, 0x1000, 0x8000, 0xAAAA, 0xFFFF and 0x0000, 0x0001, 0x0002, 0x00FF, 0x8000, 0xFFFF
Domains16 == {0, 1, 256, 4095, 4096, 32768, 43690, 65535}
Events16 == {0, 1, 2, 255, 32768, 65535}

\* a task defines an event id with CF_EVENT_MAKE_ID
make_event_id(t, domain, event) ==
    /\ ethread[t].pc = "idle"
    /\ ethread' = [ethread EXCEPT ![t] =
                     [pc |-> "id_made", domain |-> domain, event |-> event,
                      event_id |-> CF_EVENT_MAKE_ID(domain, event)]]
    /\ UNCHANGED <<g_event_system, eret, elog, ehist, tp_vars, mp_vars>>

\* the task takes the id apart with CF_EVENT_GET_DOMAIN and CF_EVENT_GET_EVENT
take_event_id_apart(t) ==
    /\ ethread[t].pc = "id_made"
    /\ ethread' = [ethread EXCEPT ![t] =
                     [pc |-> "id_taken_apart", domain |-> ethread[t].domain,
                      event |-> ethread[t].event, event_id |-> ethread[t].event_id,
                      got_domain |-> CF_EVENT_GET_DOMAIN(ethread[t].event_id),
                      got_event |-> CF_EVENT_GET_EVENT(ethread[t].event_id)]]
    /\ UNCHANGED <<g_event_system, eret, elog, ehist, tp_vars, mp_vars>>

\* the task is done with the id
event_id_done(t) ==
    /\ ethread[t].pc = "id_taken_apart"
    /\ ethread' = [ethread EXCEPT ![t] = ethread_idle]
    /\ UNCHANGED <<g_event_system, eret, elog, ehist, tp_vars, mp_vars>>

IdInit ==
    /\ TPInit
    /\ MPZero
    /\ EVZero

IdNext ==
    \/ \E t \in EventThreads, domain \in Domains16, event \in Events16 :
          make_event_id(t, domain, event)
    \/ \E t \in EventThreads : take_event_id_apart(t)
    \/ \E t \in EventThreads : event_id_done(t)

SpecIds == IdInit /\ [][IdNext]_vars

\* every task initialises the manager, creates pools and destroys pools
MapNext ==
    \/ \E t \in Allocators : cf_mempool_init(t)
    \/ \E t \in Allocators, s \in 0..(CF_MEMPOOL_MAX_SIZE + 1), n \in BlockCounts :
          mempool_create_begin(t, s, n)
    \/ \E t \in Allocators : mempool_create_lock(t)
    \/ \E t \in Allocators : mempool_create_body(t)
    \/ \E t \in Allocators, h \in POOL_SLOTS \cup {NO_POOL} : mempool_destroy_begin(t, h)
    \/ \E t \in Allocators : mempool_destroy_lock(t)
    \/ \E t \in Allocators : mempool_destroy_pool_lock(t)
    \/ \E t \in Allocators : mempool_destroy_body(t)
    \/ \E t \in Allocators : mempool_destroy_clear(t)

SpecMap == Init /\ [][MapNext]_vars

\* the controller initialises the pool, with one or two workers and with every failure
\* of a creation, and deinitialises it; the workers poll the empty queues
InitNext ==
    \/ \E n \in 1..MaxInitThreads, q \in 1..MaxQueueSize :
          init_with_config_begin(Controller, n, q)
    \/ create_workers(Controller)
    \/ \E w \in Workers : worker_loop(w)
    \/ \E w \in Workers : worker_receive(w)
    \/ deinit_begin(Controller, FALSE)
    \/ destroy_workers_state(Controller)
    \/ destroy_workers_delete(Controller)
    \/ deinit_destroy_queues(Controller)
    \/ deinit_destroy_mutex(Controller)
    \/ deinit_flags(Controller)

SpecInit == Init /\ [][InitNext]_vars

\* publishing over a thread pool that the controller shuts down with
\* cf_threadpool_deinit(false)
PubDeinitNext ==
    \/ \E t \in EventThreads \ {Owner},
          h \in SLOTS \cup {NO_SLOT, CF_EVENT_MAX_SUBSCRIBERS} :
             cf_event_unsubscribe_begin(t, h)
    \/ \E t \in EventThreads : cf_event_unsubscribe_body(t)
    \/ \E t \in EventThreads : event_lock(t)
    \/ \E id \in EventIds, d \in BOOLEAN, n \in DataSizes :
          cf_event_publish_begin(Owner, id, d, n)
    \/ cf_event_publish_count(Owner)
    \/ cf_event_publish_skip(Owner)
    \/ deliver_sync(Owner)
    \/ deliver_async(Owner)
    \/ cf_event_publish_end(Owner)
    \/ \E w \in Workers : worker_loop(w)
    \/ \E w \in Workers : worker_receive(w)
    \/ \E w \in Workers : worker_begin_task(w)
    \/ \E w \in Workers : event_dispatch_task(w)
    \/ \E w \in Workers : worker_complete(w)
    \/ deinit_begin(Controller, FALSE)
    \/ destroy_workers_state(Controller)
    \/ destroy_workers_delete(Controller)
    \/ deinit_destroy_queues(Controller)
    \/ deinit_destroy_mutex(Controller)
    \/ deinit_flags(Controller)

SpecPubDeinit == PubInit /\ [][PubDeinitNext]_vars

\* an initialised bus with no subscriber yet; ReuseSubscribes calls of cf_event_subscribe
\* lie ahead
ReuseInit ==
    /\ TPInit
    /\ MPZero
    /\ g_event_system = [event_system_zero EXCEPT !.mutex = MUTEX_FREE,
                                                  !.initialized = TRUE]
    /\ ethread = [t \in EventThreads |-> ethread_idle]
    /\ eret = no_result
    /\ elog = << >>
    /\ ehist = [ehist_zero EXCEPT !.inits = 1, !.sub_cap = ReuseSubscribes, !.watch = TRUE]

\* synchronous subscribers of event 1 and of every event come and go by handle while
\* task Owner publishes event 1
ReuseNext ==
    \/ \E t \in EventThreads, id \in {0, 1} : cf_event_subscribe_begin(t, id, TRUE, "SYNC")
    \/ \E t \in EventThreads : cf_event_subscribe_body(t)
    \/ \E t \in EventThreads, h \in SLOTS : cf_event_unsubscribe_begin(t, h)
    \/ \E t \in EventThreads : cf_event_unsubscribe_body(t)
    \/ \E t \in EventThreads : event_lock(t)
    \/ cf_event_publish_begin(Owner, 1, FALSE, 0)
    \/ cf_event_publish_count(Owner)
    \/ cf_event_publish_skip(Owner)
    \/ deliver_sync(Owner)
    \/ cf_event_publish_end(Owner)

SpecReuse == ReuseInit /\ [][ReuseNext]_vars

\* every call of the memory pool that takes a mutex, on a manager in use: task Owner
\* creates pools, destroys pools and resets the statistics, the other tasks allocate and
\* free
LocksNext ==
    \/ \E s \in 1..CF_MEMPOOL_MAX_SIZE : mempool_create_begin(Owner, s, 1)
    \/ mempool_create_lock(Owner)
    \/ mempool_create_body(Owner)
    \/ \E h \in POOL_SLOTS : mempool_destroy_begin(Owner, h)
    \/ mempool_destroy_lock(Owner)
    \/ mempool_destroy_pool_lock(Owner)
    \/ mempool_destroy_body(Owner)
    \/ mempool_destroy_clear(Owner)
    \/ \E t \in Allocators \ {Owner}, h \in POOL_SLOTS : alloc_from_pool_begin(t, h)
    \/ \E t \in Allocators : afp_lock(t)
    \/ \E t \in Allocators : afp_body(t)
    \/ \E t \in Allocators : afp_addr(t)
    \/ \E t \in Allocators \ {Owner}, s \in 1..CF_MEMPOOL_MAX_SIZE : alloc_begin(t, s)
    \/ \E t \in Allocators : alloc_frag(t)
    \/ \E t \in Allocators : alloc_fb_lock(t)
    \/ \E t \in Allocators : alloc_fb_loop(t)
    \/ \E t \in Allocators : \E p \in mthread[t].held : free_begin(t, p)
    \/ \E t \in Allocators : free_lock(t)
    \/ \E t \in Allocators : free_body(t)
    \/ \E h \in POOL_SLOTS \cup {NO_POOL} : reset_stats_begin(Owner, h)
    \/ reset_all_lock(Owner)
    \/ reset_all_loop(Owner)
    \/ reset_lock(Owner)
    \/ reset_body(Owner)

\* the manager in use, one allocation ahead
LocksInit == TPInit /\ MPFilledAfter(MaxAllocCalls - 1) /\ EVZero

SpecLocks == LocksInit /\ [][LocksNext]_vars

\* the manager is initialised and deinitialised by task Owner, which also creates pools
\* of one block; every task allocates from the pools and frees
DeinitNext ==
    \/ cf_mempool_init(Owner)
    \/ \E s \in 1..CF_MEMPOOL_MAX_SIZE : mempool_create_begin(Owner, s, 1)
    \/ mempool_create_lock(Owner)
    \/ mempool_create_body(Owner)
    \/ mempool_deinit_begin(Owner)
    \/ mempool_deinit_lock(Owner)
    \/ mempool_deinit_body(Owner)
    \/ \E t \in Allocators, h \in POOL_SLOTS : alloc_from_pool_begin(t, h)
    \/ \E t \in Allocators : afp_lock(t)
    \/ \E t \in Allocators : afp_body(t)
    \/ \E t \in Allocators : afp_addr(t)
    \/ \E t \in Allocators : \E p \in mthread[t].held : free_begin(t, p)
    \/ \E t \in Allocators : free_lock(t)
    \/ \E t \in Allocators : free_body(t)

SpecDeinit == Init /\ [][DeinitNext]_vars

\* the same with workers that are scheduled fairly
SpecPubFair ==
    /\ PubInit
    /\ [][PubNext]_vars
    /\ \A w \in Workers :
          /\ WF_vars(worker_loop(w))
          /\ WF_vars(worker_receive(w))
          /\ WF_vars(worker_begin_task(w))
          /\ WF_vars(event_dispatch_task(w))
          /\ WF_vars(worker_complete(w))

(***************************************************************************)
(* Properties of the thread pool                                           *)
(***************************************************************************)
\* C2: whenever wait_idle returns CF_OK, at that moment active_tasks is 0 and the
\* four queues hold no task
C2_WaitIdleOkMeansIdle ==
    [][\A c \in Clients :
          (/\ client[c].op = "wait_idle"
           /\ client[c].pc = "is_idle_pending"
           /\ client'[c].pc = "idle")
          => (/\ g_threadpool'.active_tasks = 0
              /\ cf_threadpool_get_pending_count_now' = 0)]_vars

\* task t is served before task u by a strict-priority, first-in-first-out pool
ServedBefore(t, u) ==
    \/ priority_value(t.priority) > priority_value(u.priority)
    \/ t.priority = u.priority /\ t.arg < u.arg

\* C9: with one worker, two tasks that were pending together when the worker finished
\* a task are executed in class order Critical, High, Normal, Low, first in first out
\* within a class (so Low A, then High B and Critical C arriving while A runs, is
\* executed A, C, B)
C9_OneWorkerClassOrder ==
    g_threadpool.thread_count = 1 =>
        \A i, j \in 1..Len(tracer) :
            (i < j /\ {tracer[i].arg, tracer[j].arg} \in hist.together)
            => ServedBefore(tracer[i], tracer[j])

\* C9 witness: A = 1 (Low) ran first, B = 2 (High) and C = 3 (Critical) were pending
\* together when it finished, and the tracer saw A, C, B
C9_Witness ==
    /\ tracer = << [arg |-> 1, priority |-> "LOW"],
                   [arg |-> 3, priority |-> "CRITICAL"],
                   [arg |-> 2, priority |-> "HIGH"] >>
    /\ {2, 3} \in hist.together

\* C10: when deinit(wait_for_tasks = true) returns and nothing was submitted since it
\* was called, total_completed = total_submitted, nothing is pending or executing and
\* the state is Stopped
C10_DeinitDrains ==
    [][(/\ client[Controller].op = "deinit"
        /\ client[Controller].pc = "deinit_flags"
        /\ client'[Controller].pc = "idle"
        /\ hist.quiet[Controller])
       => (/\ g_threadpool'.total_completed = g_threadpool'.total_submitted
           /\ cf_threadpool_get_pending_count_now' = 0
           /\ \A w \in Workers : worker'[w].pc \notin {"got", "exec", "complete"}
           /\ g_threadpool'.state = "STOPPED")]_vars

\* C11: total_submitted is at least total_completed in every state, whatever the
\* interleaving of cf_threadpool_submit, cf_threadpool_submit_from_isr and the workers
C11_SubmittedAtLeastCompleted ==
    ge32(g_threadpool.total_submitted, g_threadpool.total_completed)

\* C12: the tasks in the four queues plus active_tasks are at most total_submitted
\* minus total_completed in every state
C12_PendingPlusActiveBounded ==
    cf_threadpool_get_pending_count_now + g_threadpool.active_tasks
        <= g_threadpool.total_submitted - g_threadpool.total_completed

\* C24: cf_threadpool_submit puts no task in a queue while the pool is not initialised
\* or its state is not RUNNING, also when cf_threadpool_deinit runs beside it
C24_NoEnqueueUnlessRunning ==
    [][\A c \in Submitters :
          (client[c].pc = "submit_send" /\ client'[c].pc = "submit_stat")
              => (g_threadpool.initialized /\ g_threadpool.state = "RUNNING")]_vars

\* the queue the cf_threadpool_submit of task c sends to
TargetQueue(c) == g_threadpool[get_queue_for_priority(client[c].priority)]

\* the depths of the four queues are within what cf_threadpool_init_with_config was
\* asked for: twice queue_size for the normal queue, queue_size for the others
WithinCapacity ==
    /\ cf_queue_get_count(g_threadpool.queue_normal) <= 2 * hist.queue_size
    /\ cf_queue_get_count(g_threadpool.queue_critical) <= hist.queue_size
    /\ cf_queue_get_count(g_threadpool.queue_high) <= hist.queue_size
    /\ cf_queue_get_count(g_threadpool.queue_low) <= hist.queue_size

InitFails ==
    /\ client[Controller].pc \in {"idle", "init_workers"}
    /\ client'[Controller].pc = "idle"
    /\ client'[Controller].status = "CF_ERROR_NO_MEMORY"

\* C26: when cf_threadpool_init_with_config fails, at its return the pool is not
\* initialised, its state is STOPPED, the mutex, the queues, the worker array and the
\* workers the call created are destroyed, and the structure is as before the first
\* initialisation, so that the checks of a later call pass
C26_InitUnwinds ==
    [][InitFails
          => /\ ~g_threadpool'.initialized
             /\ g_threadpool'.state = "STOPPED"
             /\ hist'.live = {}
             /\ \A w \in Workers : worker'[w].pc \in {"none", "deleted"}
             /\ g_threadpool' = threadpool_zero]_vars

\* C26 witness: cf_threadpool_init_with_config has returned an error after it created
\* the mutex, the queues and a worker: the worker is deleted and no object is left
C26_Witness ==
    /\ client[Controller].pc = "idle"
    /\ client[Controller].status = "CF_ERROR_NO_MEMORY"
    /\ worker[1].pc = "deleted"
    /\ hist.inits = 0
    /\ hist.live = {}
    /\ g_threadpool = threadpool_zero

\* the executions of the task labelled arg the tracer has seen
Executions(arg) == {i \in 1..Len(tracer) : tracer[i].arg = arg}

\* C27: a task a queue has accepted is never executed twice, and in a pool that stays
\* RUNNING, with workers scheduled fairly and submissions that come to an end, it is
\* eventually executed
C27_ExecutedOnce ==
    /\ [](\A arg \in 1..ScenarioTasks : Cardinality(Executions(arg)) <= 1)
    /\ \A arg \in 1..ScenarioTasks :
          (hist.next_arg > arg) ~> (Cardinality(Executions(arg)) = 1)

\* C27 witness: the three tasks of the scenario, a low one among them, have each been
\* executed once and nothing is pending
C27_Witness ==
    /\ \A arg \in 1..ScenarioTasks : Cardinality(Executions(arg)) = 1
    /\ \E i \in 1..Len(tracer) : tracer[i].priority = "LOW"
    /\ cf_threadpool_get_pending_count_now = 0
    /\ g_threadpool.state = "RUNNING"

\* the class of the tasks of a queue
queue_class(q) ==
    CASE q = "queue_critical" -> 3 [] q = "queue_high" -> 2
      [] q = "queue_normal" -> 1 [] q = "queue_low" -> 0

QueueNames == {"queue_critical", "queue_high", "queue_normal", "queue_low"}

\* the step is a cf_queue_receive of worker w that returns a task
Dequeues(w) == worker[w].pc = "receive" /\ worker'[w].pc = "got"

LivePools == {i \in POOL_SLOTS : g_pool_manager.pools[i].active}

\* C5: in every live pool current_used plus the number of 1-bits in the two free
\* masks equals block_count
C5_UsedPlusFreeIsBlockCount ==
    \A i \in LivePools :
        g_pool_manager.pools[i].current_used + free_bits_set(g_pool_manager.pools[i])
            = g_pool_manager.pools[i].block_count

\* C6 as stated: in every live pool total_allocations - total_deallocations equals
\* current_used, also after cf_mempool_reset_stats
C6_AllocsMinusFreesIsUsed ==
    \A i \in LivePools :
        g_pool_manager.pools[i].total_allocations
            - g_pool_manager.pools[i].total_deallocations
          = g_pool_manager.pools[i].current_used

\* C6 amended: in every live pool total_allocations - total_deallocations equals
\* current_used minus the value current_used had at the last cf_mempool_reset_stats of
\* the pool (0 while its statistics have not been reset)
C6_AllocsMinusFreesSinceReset ==
    \A i \in LivePools :
        g_pool_manager.pools[i].total_allocations
            - g_pool_manager.pools[i].total_deallocations
          = g_pool_manager.pools[i].current_used - mhist.used_at_reset[i]

\* C6 witness: the statistics of a pool were reset while blocks were in use, and blocks
\* have been allocated and freed since
C6_Witness ==
    \E i \in LivePools :
        /\ mhist.used_at_reset[i] > 0
        /\ g_pool_manager.pools[i].total_allocations > 0
        /\ g_pool_manager.pools[i].total_deallocations > 0

\* task t leaves the critical section of cf_mempool_free in this step
FreeReturns(t) == mthread[t].pc = "free_body" /\ mthread'[t].pc = "idle"

\* C7: a pointer returned by cf_mempool_alloc_from_pool or cf_mempool_alloc is a pool
\* pointer; the first free of it (no other task having freed the block) returns CF_OK;
\* a second free of it with no allocation in between returns CF_ERROR_INVALID_STATE and
\* leaves current_used, total_deallocations and both free masks of the pool as they were
C7_DoubleFreeRejected ==
    [][/\ ((mret.op \in {"alloc", "alloc_from_pool"} /\ mret.ptr # NULL)
             => cf_mempool_is_pool_pointer(mret.ptr))'
       /\ \A t \in Allocators :
            LET p == mthread[t].ptr
                before == g_pool_manager.pools[mthread[t].handle]
                after == g_pool_manager'.pools[mthread[t].handle]
            IN  /\ (FreeReturns(t) /\ p \in mthread[t].held \ mhist.robbed[t])
                     => mret'.status = "CF_OK"
                /\ (FreeReturns(t) /\ p \notin mthread[t].held
                                   /\ p = mthread[t].last_freed)
                     => /\ mret'.status = "CF_ERROR_INVALID_STATE"
                        /\ after.current_used = before.current_used
                        /\ after.total_deallocations = before.total_deallocations
                        /\ after.free_mask_low = before.free_mask_low
                        /\ after.free_mask_high = before.free_mask_high]_vars

\* C7 witness: a task was handed a pointer, freed it, and its second free of the same
\* pointer has just been rejected
C7_Witness ==
    /\ mret.op = "free"
    /\ mret.status = "CF_ERROR_INVALID_STATE"
    /\ mthread[mret.task].last_freed # NULL

\* the fields of a pool, the state of its mutex aside
POOL_FIELDS == DOMAIN pool_zero \ {"mutex"}

\* task t frees in this step the pointer its call of cf_mempool_alloc just before
\* returned, and no other task has taken a step in the memory pool since that call began
RoundTrip(t) ==
    /\ FreeReturns(t)
    /\ mret'.status = "CF_OK"
    /\ mhist.snap[t].valid
    /\ mhist.snap[t].ptr # NULL
    /\ mhist.snap[t].ptr = mthread[t].ptr

\* the serving pool is after the step what it was when the call of cf_mempool_alloc
\* began, on all fields but those of except
RestoredExcept(t, except) ==
    \A f \in POOL_FIELDS \ except :
        g_pool_manager'.pools[mthread[t].handle][f]
            = mhist.snap[t].pools[mthread[t].handle][f]

\* C8 as stated: cf_mempool_alloc followed at once by cf_mempool_free of the pointer
\* leaves every field of the serving pool as before the allocation, except
\* total_allocations, total_deallocations and peak_used
C8_RoundTripRestoresPool ==
    [][\A t \in Allocators :
          RoundTrip(t) => RestoredExcept(t, {"total_allocations", "total_deallocations",
                                             "peak_used"})]_vars

\* C8 amended: cf_mempool_alloc followed at once by cf_mempool_free of the pointer
\* leaves every field of the serving pool as before the allocation, except
\* total_allocations, total_deallocations, peak_used, alloc_hint and
\* fragmentation_count
C8_RoundTripExceptHintAndFragmentation ==
    [][\A t \in Allocators :
          RoundTrip(t) => RestoredExcept(t, {"total_allocations", "total_deallocations",
                                             "peak_used", "alloc_hint",
                                             "fragmentation_count"})]_vars

\* C8 witness: such a round trip has just ended, on a pool whose blocks are larger than
\* the request was
C8_Witness ==
    /\ mret.op = "free"
    /\ mret.status = "CF_OK"
    /\ mhist.snap[mret.task].valid
    /\ mhist.snap[mret.task].ptr # NULL
    /\ mhist.snap[mret.task].ptr = mthread[mret.task].last_freed
    /\ \E i \in LivePools :
          g_pool_manager.pools[i].fragmentation_count
              > mhist.snap[mret.task].pools[i].fragmentation_count

\* the pool a request of size bytes is meant for: the active pool of the smallest block
\* size that covers it, the first in the table if several have that block size
best_fit(pools, size) ==
    LET covering == {i \in POOL_SLOTS : pools[i].active /\ pools[i].block_size >= size}
        smallest == {i \in covering :
                        \A j \in covering : pools[i].block_size <= pools[j].block_size}
    IN  IF covering = {} THEN NO_POOL ELSE SetMin(smallest)

\* task t returns in this step from a call cf_mempool_alloc(size) with size in
\* 1..CF_MEMPOOL_MAX_SIZE on an initialised manager
AllocReturns(t) ==
    mthread[t].op = "alloc" /\ mthread[t].pc # "idle" /\ mthread'[t].pc = "idle"

\* the call that returns was served by pool best and counted the fragmentation: one
\* more in the pool and in the manager if the block is larger than size, none otherwise
ServedByBestFit(t, best) ==
    LET size == mthread[t].size
        before == mhist'.snap[t].pools[best]
        wasted == IF before.block_size > size THEN 1 ELSE 0
    IN  /\ mret'.ptr # NULL
        /\ (find_pool_by_pointer(mret.ptr))' = best
        /\ g_pool_manager'.pools[best].fragmentation_count
             = before.fragmentation_count + wasted
        /\ g_pool_manager'.fragmentation_events
             = g_pool_manager.fragmentation_events + wasted

AllocReturned(size) ==
    /\ mret.op = "alloc"
    /\ mhist.snap[mret.task].valid
    /\ mhist.snap[mret.task].size = size

\* cf_mempool_alloc(0) and cf_mempool_alloc(CF_MEMPOOL_MAX_SIZE + 1) return NULL and
\* change no pool
RejectsBadSizes ==
    \A size \in {0, CF_MEMPOOL_MAX_SIZE + 1} :
        AllocReturned(size) =>
            /\ mret.ptr = NULL
            /\ g_pool_manager.pools = mhist.snap[mret.task].pools

\* the active pools of table pools whose blocks hold CF_MEMPOOL_MAX_SIZE bytes
Covering(pools) ==
    {i \in POOL_SLOTS : pools[i].active /\ pools[i].block_size >= CF_MEMPOOL_MAX_SIZE}

\* C14 as stated: cf_mempool_alloc(0) and cf_mempool_alloc(CF_MEMPOOL_MAX_SIZE + 1)
\* return NULL and change no pool, and cf_mempool_alloc(CF_MEMPOOL_MAX_SIZE) returns a
\* pointer if and only if an active pool has blocks of at least CF_MEMPOOL_MAX_SIZE
C14_SizeBounds ==
    /\ RejectsBadSizes
    /\ AllocReturned(CF_MEMPOOL_MAX_SIZE) =>
          (mret.ptr # NULL <=> Covering(g_pool_manager.pools) # {})

\* C14 amended: the two sizes are rejected as stated; cf_mempool_alloc(CF_MEMPOOL_MAX_SIZE)
\* returns a pointer only if an active pool has blocks of at least CF_MEMPOOL_MAX_SIZE,
\* and it does return one if such a pool had a free block and an unlocked mutex when the
\* call began
C14_SizeBoundsWhenBlockFree ==
    /\ RejectsBadSizes
    /\ AllocReturned(CF_MEMPOOL_MAX_SIZE) =>
          LET before == mhist.snap[mret.task].pools IN
          /\ mret.ptr # NULL => Covering(g_pool_manager.pools) # {}
          /\ (\E i \in Covering(before) :
                 /\ find_free_block(before[i]) # NO_POOL
                 /\ before[i].mutex = MUTEX_FREE)
                => mret.ptr # NULL

\* C14 witness: cf_mempool_alloc(CF_MEMPOOL_MAX_SIZE) has returned a pointer
C14_Witness ==
    /\ AllocReturned(CF_MEMPOOL_MAX_SIZE)
    /\ mret.ptr # NULL
    /\ cf_mempool_is_pool_pointer(mret.ptr)

\* the active pools whose blocks hold size bytes
covering_pools(size) ==
    {i \in POOL_SLOTS : /\ g_pool_manager.pools[i].active
                        /\ g_pool_manager.pools[i].block_size >= size}

\* C20: on an initialised manager, outside the critical section of cf_mempool_create and
\* cf_mempool_destroy, the map entry of every size of 1..CF_MEMPOOL_MAX_SIZE is the
\* index of an active pool of the smallest block size that holds size bytes, and it is
\* CF_MEMPOOL_INVALID_INDEX exactly when no active pool holds size bytes
C20_MapConsistent ==
    (g_pool_manager.initialized /\ g_pool_manager.global_mutex = MUTEX_FREE)
        => \A size \in 1..CF_MEMPOOL_MAX_SIZE :
              LET entry == g_pool_manager.size_to_pool_map[size] IN
              /\ (entry = CF_MEMPOOL_INVALID_INDEX) <=> (covering_pools(size) = {})
              /\ entry # CF_MEMPOOL_INVALID_INDEX
                    => /\ entry \in covering_pools(size)
                       /\ \A j \in covering_pools(size) :
                             g_pool_manager.pools[entry].block_size
                                 <= g_pool_manager.pools[j].block_size

\* C20 witness: cf_mempool_destroy has returned after it destroyed the pool of slot 0,
\* the pool of 1-byte blocks of slot 1 is left: the map sends size 1 to it and no size 2
C20_Witness ==
    /\ mret.op = "destroy"
    /\ mret.status = "CF_OK"
    /\ g_pool_manager.initialized
    /\ g_pool_manager.global_mutex = MUTEX_FREE
    /\ ~g_pool_manager.pools[0].active
    /\ g_pool_manager.pools[1].active
    /\ g_pool_manager.pools[1].block_size = 1
    /\ g_pool_manager.size_to_pool_map[1] = 1
    /\ g_pool_manager.size_to_pool_map[CF_MEMPOOL_MAX_SIZE] = CF_MEMPOOL_INVALID_INDEX

\* the pointer the step hands back when task t leaves cf_mempool_alloc_from_pool: to
\* cf_mempool_alloc, or to the task
afp_returned(t) ==
    IF mthread'[t].pc = "alloc_frag" THEN mthread'[t].ptr ELSE mret'.ptr

\* C21: the block index cf_mempool_alloc_from_pool records is below block_count and its
\* free bit is 0 once the allocation is recorded, and the non-null pointer the call then
\* returns is memory_base + block_index * block_size of the pool
C21_BlockAddressValid ==
    [][\A t \in Allocators :
          LET pool == g_pool_manager.pools[mthread[t].handle] IN
          /\ (mthread[t].pc = "afp_body" /\ mthread'[t].pc = "afp_addr")
                => /\ mthread'[t].block_index \in 0..(pool.block_count - 1)
                   /\ ~is_block_free(g_pool_manager'.pools[mthread[t].handle],
                                     mthread'[t].block_index)
          /\ (mthread[t].pc = "afp_addr" /\ mthread'[t].pc # "afp_addr"
                  /\ afp_returned(t) # NULL)
                => \E i \in 0..(pool.block_count - 1) :
                      /\ i = mthread[t].block_index
                      /\ afp_returned(t) = pool.memory_base + i * pool.block_size]_vars

\* C21 witness: cf_mempool_alloc_from_pool has returned block 32 of the pool of 33
\* blocks of 2 bytes, the block of the first bit of free_mask_high, and the bit is 0
C21_Witness ==
    /\ mret.op = "alloc_from_pool"
    /\ mret.ptr = g_pool_manager.pools[0].memory_base + MASK_BITS * 2
    /\ g_pool_manager.pools[0].block_count = MASK_BITS + 1
    /\ 0 \notin g_pool_manager.pools[0].free_mask_high

\* the live allocations of task u: the pointers it was handed (or is being handed) that
\* no free has released since
live_allocations(u) == owned(u) \ mhist.robbed[u]

\* C35: the block cf_mempool_alloc_from_pool takes under the mutex, for its caller or for
\* cf_mempool_alloc, is at the address of no live allocation of any task, whatever the
\* interleaving of the allocations and the frees of the tasks
C35_ExclusiveBlocks ==
    [][\A t \in Allocators :
          (mthread[t].pc = "afp_body" /\ mthread'[t].pc = "afp_addr")
             => LET p == get_block_address(g_pool_manager'.pools[mthread[t].handle],
                                           mthread'[t].block_index)
                IN  \A u \in Allocators : p \notin live_allocations(u)]_vars

\* C35 witness: two tasks hold live allocations of the same pool, and one of them has
\* just been handed its block
C35_Witness ==
    \E t \in Allocators, u \in Allocators :
        /\ t # u
        /\ mret.task = t
        /\ mret.op \in {"alloc", "alloc_from_pool"}
        /\ mret.ptr \in live_allocations(t)
        /\ \E q \in live_allocations(u) :
              find_pool_by_pointer(q) = find_pool_by_pointer(mret.ptr)

(***************************************************************************)
(* Properties of the event bus                                             *)
(***************************************************************************)
ActiveSlots == {i \in SLOTS : g_event_system.subscribers[i].active}

\* C1: when no call of the bus is in progress, what cf_event_get_subscriber_count
\* returns is the number of slots of the subscriber table whose active flag is set
C1_CountIsActiveSlots ==
    (\A t \in EventThreads : ethread[t].pc = "idle")
        => cf_event_get_subscriber_count = Cardinality(ActiveSlots)

\* task t leaves the critical section of cf_event_subscribe in this step
SubscribeReturns(t) == ethread[t].pc = "subscribe" /\ ethread'[t].pc = "idle"

\* C15: cf_event_subscribe on a full table returns CF_ERROR_NO_MEMORY, hands out no
\* handle and leaves the table and subscriber_count as they were; with a free slot,
\* a callback and an initialised bus it goes on to the table and returns CF_OK
C15_SubscribeCapacity ==
    [][\A t \in EventThreads :
          /\ \A id \in EventIds, mode \in {"SYNC", "ASYNC"} :
                (g_event_system.initialized /\ cf_event_subscribe_begin(t, id, TRUE, mode))
                   => ethread'[t].pc = "lock"
          /\ (SubscribeReturns(t) /\ ActiveSlots = SLOTS)
                => /\ eret'.task = t
                   /\ eret'.status = "CF_ERROR_NO_MEMORY"
                   /\ eret'.handle = NO_SLOT
                   /\ g_event_system'.subscribers = g_event_system.subscribers
                   /\ g_event_system'.subscriber_count = g_event_system.subscriber_count
          /\ (SubscribeReturns(t) /\ ActiveSlots # SLOTS)
                => /\ eret'.task = t
                   /\ eret'.status = "CF_OK"
                   /\ eret'.handle \in SLOTS \ ActiveSlots]_vars

\* C15 witness: a call of cf_event_subscribe has just been turned away from a full table
C15_Witness ==
    /\ eret.task \in EventThreads
    /\ eret.status = "CF_ERROR_NO_MEMORY"
    /\ g_event_system.initialized
    /\ ActiveSlots = SLOTS
    /\ g_event_system.subscriber_count = CF_EVENT_MAX_SUBSCRIBERS

\* C17: a publish from the callback of a synchronous subscriber does not deadlock: no
\* task waits in cf_mutex_lock(g_event_system.mutex, CF_WAIT_FOREVER) for the mutex it
\* holds itself, which no other task can release
C17_ReentrantPublishReturns ==
    \A t \in EventThreads : ~(ethread[t].pc = "lock" /\ g_event_system.mutex = t)

C19_IdRoundTrip ==
    \A t \in EventThreads :
        ethread[t].pc = "id_taken_apart"
            => /\ ethread[t].event_id = CF_EVENT_MAKE_ID(ethread[t].domain, ethread[t].event)
               /\ ethread[t].got_domain = uint32_t(ethread[t].domain)
               /\ ethread[t].got_event = uint32_t(ethread[t].event)

\* C19 witness: an id of domain 0xFFFF, whose shift fills the top bit of the 32, and of
\* event number 0xFFFF has been taken apart
C19_Witness ==
    \E t \in EventThreads :
        /\ ethread[t].pc = "id_taken_apart"
        /\ ethread[t].domain = 65535
        /\ ethread[t].event = 65535
        /\ ethread[t].event_id = 0..31

\* the step of task t is an asynchronous delivery that is dropped: the loop goes on to
\* the next slot and the thread pool has not accepted a task for the subscriber
AsyncDropped(t) ==
    LET sub == g_event_system.subscribers[ethread[t].i] IN
    /\ ethread[t].pc = "publish_loop"
    /\ ethread[t].i < CF_EVENT_MAX_SUBSCRIBERS
    /\ sub.active
    /\ matches(sub, ethread[t].event_id)
    /\ sub.mode = "ASYNC"
    /\ ethread'[t].pc = "publish_loop"
    /\ ethread'[t].i = ethread[t].i + 1
    /\ ehist'.enqueued = ehist.enqueued

\* C22: an asynchronous delivery that is dropped leaves a trace in what the event bus,
\* the thread pool and the memory pool hold: one of their counters has changed
C22_DropsCounted ==
    [][\A t \in EventThreads :
          AsyncDropped(t)
              => <<g_event_system, g_threadpool, g_pool_manager>>'
                     # <<g_event_system, g_threadpool, g_pool_manager>>]_vars

\* the step is the loop of cf_event_unsubscribe_all of task t
UnsubscribeAllLoop(t) ==
    ethread[t].pc = "unsubscribe_all" /\ ethread'[t].pc = "idle"

\* C23: cf_event_unsubscribe_all(id) clears the active flag of the active slots whose
\* event id is id and of no other slot, changes nothing else in the table, returns the
\* number of those slots, and for id # 0 leaves the subscribers of every event active
C23_UnsubscribeAllFrame ==
    [][\A t \in EventThreads :
          UnsubscribeAllLoop(t) =>
              LET id == ethread[t].event_id
                  old == g_event_system.subscribers
                  new == g_event_system'.subscribers
                  hit == {i \in SLOTS : old[i].active /\ old[i].event_id = id}
              IN  /\ \A i \in hit : new[i] = [old[i] EXCEPT !.active = FALSE]
                  /\ \A i \in SLOTS \ hit : new[i] = old[i]
                  /\ eret'.task = t
                  /\ eret'.count = Cardinality(hit)
                  /\ id # 0 => \A i \in SLOTS :
                                  (old[i].active /\ old[i].event_id = 0) => new[i].active]_vars

\* C23 witness: cf_event_unsubscribe_all of an event that is not 0 has returned 1, its
\* subscriber is gone and a subscriber of every event is still active
C23_Witness ==
    /\ eret.count = 1
    /\ eret.status = "CF_OK"
    /\ g_event_system.initialized
    /\ g_event_system.subscriber_count = 1
    /\ \E i \in SLOTS, j \in SLOTS :
          /\ ~g_event_system.subscribers[i].active
          /\ g_event_system.subscribers[i].event_id # 0
          /\ g_event_system.subscribers[i].callback # 0
          /\ g_event_system.subscribers[j].active
          /\ g_event_system.subscribers[j].event_id = 0

\* the invocations of callback for publish call pub
Invocations(pub, callback) ==
    {i \in 1..Len(elog) : elog[i].pub = pub /\ elog[i].callback = callback}

\* C3: when a call of cf_event_publish_data has returned CF_OK, every synchronous
\* subscriber that was active during the whole call has been invoked exactly once, by
\* the publishing task with the published id and size, if it subscribed to the id or
\* to 0, and has not been invoked otherwise
C3_SyncDeliveredOnce ==
    \A t \in EventThreads :
        LET call == ehist.call[t] IN
        call.returned =>
            \A sub \in call.through :
                sub.mode = "SYNC" =>
                    IF sub.event_id = call.event_id \/ sub.event_id = 0
                    THEN /\ Cardinality(Invocations(call.pub, sub.callback)) = 1
                         /\ \A i \in Invocations(call.pub, sub.callback) :
                               /\ elog[i].by = <<"task", t>>
                               /\ elog[i].event_id = call.event_id
                               /\ elog[i].size = call.size
                    ELSE Invocations(call.pub, sub.callback) = {}

\* C3 witness: a call has returned during which a synchronous subscriber of the
\* published id or of 0 and a synchronous subscriber of another id were active
C3_Witness ==
    \E t \in EventThreads :
        LET call == ehist.call[t] IN
        /\ call.returned
        /\ \E sub \in call.through :
              sub.mode = "SYNC" /\ (sub.event_id = call.event_id \/ sub.event_id = 0)
        /\ \E sub \in call.through :
              sub.mode = "SYNC" /\ sub.event_id # call.event_id /\ sub.event_id # 0

\* the subscribers, active during the whole of publish call `call`, that the call is
\* for: those of the published id and those of id 0
Addressed(call, mode) ==
    {sub \in call.through :
        sub.mode = mode /\ (sub.event_id = call.event_id \/ sub.event_id = 0)}

\* cf_event_publish_data(id, NULL, size) with size > 0 on an initialised bus returns
\* CF_ERROR_NULL_POINTER, invokes no callback, queues no dispatch record and leaves
\* total_published as it was
NullPayloadRejected ==
    \A t \in EventThreads, id \in EventIds, size \in DataSizes \ {0} :
        (g_event_system.initialized /\ cf_event_publish_begin(t, id, FALSE, size))
            => /\ eret'.task = t
               /\ eret'.status = "CF_ERROR_NULL_POINTER"
               /\ elog' = elog
               /\ g_threadpool' = g_threadpool
               /\ ehist'.enqueued = ehist.enqueued
               /\ g_event_system'.total_published = g_event_system.total_published

\* when cf_event_publish_data(id, data, 0) with data # NULL has returned, it has invoked
\* every synchronous subscriber it is for once with length 0, and no callback has been
\* invoked for it with another length
EmptyPayloadDelivered ==
    \A t \in EventThreads :
        LET call == ehist.call[t] IN
        (call.returned /\ call.data /\ call.size = 0) =>
            /\ \A sub \in Addressed(call, "SYNC") :
                  /\ Cardinality(Invocations(call.pub, sub.callback)) = 1
                  /\ \A i \in Invocations(call.pub, sub.callback) :
                        elog[i].by = <<"task", t>>
            /\ \A i \in 1..Len(elog) : elog[i].pub = call.pub => elog[i].size = 0

\* publish call pub was cf_event_publish_data(id, data, 0) with data # NULL, has returned
\* CF_OK, and was for the asynchronous subscriber with this callback
EmptyPublishedFor(pub, callback) ==
    \E t \in EventThreads :
        LET call == ehist.call[t] IN
        /\ call.pub = pub
        /\ call.returned /\ call.data /\ call.size = 0
        /\ \E sub \in Addressed(call, "ASYNC") : sub.callback = callback

Deliveries ==
    [pub : 1..MaxPublishes, callback : 1..MaxSubscribes, size : DataSizes]

\* the callback of delivery d has been invoked exactly once, by a worker, with a
\* payload of the published length
InvokedOnce(d) ==
    /\ Cardinality(Invocations(d.pub, d.callback)) = 1
    /\ \A i \in Invocations(d.pub, d.callback) :
          elog[i].by[1] = "worker" /\ elog[i].size = d.size

\* C4: an asynchronous subscriber is invoked at most once for a publish call, and once
\* the thread pool has accepted the delivery a worker eventually invokes the callback
\* exactly once with a payload of the published length
C4_AsyncDeliveredOnce ==
    /\ [](\A pub \in 1..MaxPublishes, callback \in 1..MaxSubscribes :
            Cardinality({i \in Invocations(pub, callback) :
                            elog[i].by[1] = "worker"}) <= 1)
    /\ \A d \in Deliveries : (d \in ehist.enqueued) ~> InvokedOnce(d)

\* C4 witness: a worker has invoked the callback of an accepted delivery of a payload
\* that is not empty
C4_Witness ==
    \E d \in ehist.enqueued :
        /\ d.size > 0
        /\ \E i \in Invocations(d.pub, d.callback) : elog[i].by[1] = "worker"

\* the dispatch record of delivery d has been freed: event_dispatch_task ran for it
RecordFreed(d) ==
    \E i \in 1..Len(elog) :
        /\ elog[i].by[1] = "worker"
        /\ elog[i].pub = d.pub
        /\ elog[i].callback = d.callback

\* the dispatch record of delivery d is the argument of a task in the Normal queue
RecordQueued(d) ==
    \E i \in 1..Len(g_threadpool.queue_normal.items) :
        LET task == g_threadpool.queue_normal.items[i] IN
        /\ task.function = "event_dispatch_task"
        /\ task.arg.pub = d.pub
        /\ task.arg.callback = d.callback

\* the dispatch record of delivery d is the argument of the task a worker took and has
\* not run yet
RecordHeld(d) ==
    \E w \in Workers :
        /\ worker[w].pc \in {"got", "exec"}
        /\ worker[w].task.function = "event_dispatch_task"
        /\ worker[w].task.arg.pub = d.pub
        /\ worker[w].task.arg.callback = d.callback

\* C29: every dispatch record an asynchronous delivery allocated and enqueued has been
\* freed by the worker that ran it, or is still on its way to one: it is in the queue or
\* in the hands of a worker, so that no record stays allocated with nobody to free it,
\* whatever publish, the workers and cf_threadpool_deinit do
C29_RecordsOwned ==
    \A d \in ehist.enqueued : RecordFreed(d) \/ RecordQueued(d) \/ RecordHeld(d)

\* C30: within one call of publish the synchronous subscribers are invoked in the order
\* in which they subscribed (the callbacks are numbered in that order), also after
\* subscribers have left and their slots have been taken again
C30_SubscriptionOrder ==
    \A i \in 1..Len(elog), j \in 1..Len(elog) :
        (i < j /\ elog[i].pub = elog[j].pub /\ elog[i].by[1] = "task"
               /\ elog[j].by[1] = "task")
            => elog[i].callback < elog[j].callback

\* the transitions of the state machine of the pool
state_transitions ==
    {<<"STOPPED", "RUNNING">>, <<"RUNNING", "SHUTTING_DOWN">>, <<"SHUTTING_DOWN", "STOPPED">>}

\* C31: the state cf_threadpool_get_state returns changes only from Stopped to Running,
\* from Running to ShuttingDown and from ShuttingDown to Stopped, also when
\* cf_threadpool_init_with_config fails
C31_StateMachine ==
    [][g_threadpool'.state # g_threadpool.state
          => <<g_threadpool.state, g_threadpool'.state>> \in state_transitions]_vars

\* the bits that are 1 in the 64-bit value (free_mask_high, free_mask_low) of a pool
free_mask_bits(pool) ==
    pool.free_mask_low \cup {b + MASK_BITS : b \in pool.free_mask_high}

\* C33: cf_mempool_create leaves exactly the block_count lowest bits of
\* (free_mask_high, free_mask_low) set, for every block_count it accepts, 32 and 64
\* included
C33_FreeMaskInitialised ==
    [][\A slot \in POOL_SLOTS :
          (~g_pool_manager.pools[slot].active /\ g_pool_manager'.pools[slot].active)
             => free_mask_bits(g_pool_manager'.pools[slot]) =
                   0..(g_pool_manager'.pools[slot].block_count - 1)]_vars

\* positions where a task calls cf_mutex_lock on the mutex of the manager, and on the
\* mutex of the pool of its handle
GlobalLockPcs == {"create_lock", "destroy_lock", "alloc_fb_lock", "reset_all_lock"}
PoolLockPcs == {"afp_lock", "free_lock", "reset_lock", "destroy_pool_lock"}

\* the pools whose mutex task t holds
PoolsHeld(t) == {i \in POOL_SLOTS : g_pool_manager.pools[i].mutex = t}

\* task t has requested a mutex that task u holds
WaitsFor(t, u) ==
    \/ mthread[t].pc \in GlobalLockPcs /\ g_pool_manager.global_mutex = u
    \/ /\ mthread[t].pc \in PoolLockPcs
       /\ g_pool_manager.pools[mthread[t].handle].mutex = u

\* no set of tasks in which every task waits for a task of the set
NoWaitCycle ==
    \A S \in (SUBSET Allocators) \ {{}} :
        \E t \in S : \A u \in S : ~WaitsFor(t, u)

C34_DeinitReleasesMemory ==
    [][\A t \in Allocators :
          (mthread[t].pc = "deinit_body" /\ mthread'[t].pc = "idle")
             => /\ \A i \in POOL_SLOTS : ~g_pool_manager'.pools[i].active
                /\ g_pool_manager'.pool_count = 0
                /\ \A i \in POOL_SLOTS :
                      g_pool_manager.pools[i].active
                         => g_pool_manager.pools[i].memory_base \notin heap']_vars

\* the callbacks of the subscribers that are in the table: those that have subscribed
\* and for which no unsubscribe has returned
subscribed_callbacks ==
    {g_event_system.subscribers[i].callback :
        i \in {j \in SLOTS : g_event_system.subscribers[j].active}}

\* C36: a callback is invoked only while its subscriber is in the table: once
\* cf_event_unsubscribe has returned for a subscriber its callback is not invoked again,
\* not even for an asynchronous delivery that was put in the queue before
C36_NoDeliveryAfterUnsubscribe ==
    [][Len(elog') > Len(elog)
          => elog'[Len(elog')].callback \in subscribed_callbacks]_vars

\* C37: cf_event_unsubscribe with a handle that the task has already unsubscribed, and
\* that no subscribe has handed to it since, returns CF_ERROR_NOT_FOUND and leaves the
\* table as it is, also when another subscribe has taken the slot in the meantime
C37_StaleHandleRejected ==
    [][\A t \in EventThreads :
          (/\ ethread[t].pc = "unsubscribe"
           /\ ethread'[t].pc = "idle"
           /\ ethread[t].handle \in ehist.stale[t])
             => /\ eret'.status = "CF_ERROR_NOT_FOUND"
                /\ g_event_system'.subscribers = g_event_system.subscribers]_vars

\* C38: when wait_idle returns CF_OK on an initialised pool and no submit was in
\* progress when it was called or was made since, total_completed = total_submitted
\* and no worker holds a task it has taken from a queue and not run
C38_IdleMeansFinished ==
    [][\A c \in Clients :
          (/\ client[c].op = "wait_idle"
           /\ client[c].pc = "is_idle_pending"
           /\ client'[c].pc = "idle"
           /\ hist.quiet[c]
           /\ g_threadpool.initialized)
          => (/\ g_threadpool'.total_completed = g_threadpool'.total_submitted
              /\ \A w \in Workers : worker'[w].pc \notin {"got", "exec"})]_vars

\* the steps of cf_mempool_alloc_from_pool and cf_mempool_free that lock or unlock the
\* mutex of the pool
PoolMutexPcs == {"afp_lock", "afp_body", "free_lock", "free_body"}

\* the region of the heap the address ptr lies in
region_of(ptr) == (ptr \div REGION_SPAN) * REGION_SPAN

\* C39: whatever the interleaving of cf_mempool_destroy with cf_mempool_alloc_from_pool
\* and cf_mempool_free on the same pool, no step of the two locks or unlocks the mutex of
\* a pool that destroy has destroyed, and the non-null pointer alloc_from_pool hands
\* back lies in memory destroy has not released
C39_DestroyVersusUse ==
    [][\A t \in Allocators :
          /\ (mthread[t].pc \in PoolMutexPcs /\ mthread'[t] # mthread[t])
                => g_pool_manager.pools[mthread[t].handle].mutex # MUTEX_NONE
          /\ (mthread[t].pc = "afp_addr" /\ mthread'[t].pc # "afp_addr"
                  /\ afp_returned(t) # NULL)
                => region_of(afp_returned(t)) \in heap']_vars

\* C40: a call of cf_mempool_alloc(size) that fails, with no other task at the pools
\* during the call, has added at most 1 to allocation_failures of each active pool with
\* block_size >= size, nothing to those of the other pools, and exactly 1 to
\* global_failures
C40_FallbackTriesEachPoolOnce ==
    [][\A t \in Allocators :
          (/\ mthread[t].op = "alloc"
           /\ mthread[t].pc = "alloc_fb_loop"
           /\ mthread'[t].pc = "idle"
           /\ mhist.snap[t].valid)
             => /\ g_pool_manager'.global_failures = inc32(g_pool_manager.global_failures)
                /\ \A i \in POOL_SLOTS :
                      LET before == mhist.snap[t].pools[i]
                          after == g_pool_manager'.pools[i]
                      IN  \/ after.allocation_failures = before.allocation_failures
                          \/ /\ before.active
                             /\ before.block_size >= mhist.snap[t].size
                             /\ after.allocation_failures
                                    = inc32(before.allocation_failures)]_vars

====
